---- MODULE Spec2Model ----
(***************************************************************************)
(* A model of array_alg.h: generic algorithms over C arrays.               *)
(*                                                                         *)
(* Memory is one function from slot indices 0..size-1 to elements; a       *)
(* pointer is a slot index, a range is a pair (first, last) of indices.    *)
(* An element is a record [key, tag]: the comparator looks at the key      *)
(* only (like compare_person_name, which ignores Person.id), the tag is    *)
(* the comparator-invisible identity of the element.                       *)
(* Every C function is an operator that takes the memory and returns the   *)
(* memory it leaves (with the returned pointer, when there is one); every  *)
(* C loop is a RECURSIVE operator over the loop's variables.               *)
(***************************************************************************)
EXTENDS Integers, Sequences, FiniteSets, TLC

VARIABLES
    mem,              \* the memory after the last call
    mem0,             \* the memory the last call started from
    op,               \* name of the last call ("init" before any call)
    args,             \* the arguments of the call (a record of slot indices)
    ret,              \* the value the last call returned (0 when void)
    count,            \* heap machine: size of the active heap range
    trues,            \* permutation machine: true-returning calls so far
    ties,             \* merge machine: the ties of the last merge or set_union
    memcpy_backward,  \* the build's memcpy copies from the high end down
    accessed,         \* the slots the last call read or wrote (where recorded)
    fault             \* the last call read or wrote outside the storage

vars == <<mem, mem0, op, args, ret, count, trues, ties, memcpy_backward, accessed, fault>>

(***************************************************************************)
(* Bounds of the model.                                                    *)
(***************************************************************************)
MaxKey == 2          \* keys are 0..MaxKey
MaxLen == 4          \* every array of length 0..MaxLen over the keys
Extra == 1           \* lengths cutoff+1 .. cutoff+Extra above each cutoff
MaxMod == 3          \* patterned long arrays: (mul*i + off) % mod
MaxHeap == 5         \* capacity of the heap machine
MaxPerm == 5         \* longest range the permutation machine enumerates
MaxSet == 3          \* longest input range of merge and the set operations
MaxDraw == 4          \* longest range random_shuffle and sample are called on
MaxTouch == 2        \* access machine: every range of length 0..MaxTouch
Slack == 2           \* access machine: slots of other storage past the range

Keys == 0..MaxKey

Elem(k, t) == [key |-> k, tag |-> t]

\* Contents of a slot nothing has written yet (malloc'ed or scratch storage).
Poison == Elem(-1, -1)

(***************************************************************************)
(* The comparator: three-way, on the key alone.                            *)
(***************************************************************************)
compare(a, b) == a.key - b.key

(***************************************************************************)
(* Primitives: swap, memcpy/memmove, copy, reverse.                        *)
(***************************************************************************)
\* TLC hands an operator its arguments unevaluated, so a loop that only passes
\* the memory on would carry one nested expression per iteration.
\* Evaluated(m) is TRUE, and makes TLC evaluate m at that point of the loop.
Evaluated(m) == m = m

swap(m, a, b) == [m EXCEPT ![a] = m[b], ![b] = m[a]]

\* memcpy copying slot by slot from the low end up.
RECURSIVE memcpy_up(_, _, _, _, _)
memcpy_up(m, dst, src, n, i) ==
    IF Evaluated(m) /\ i >= n THEN m
    ELSE memcpy_up([m EXCEPT ![dst + i] = m[src + i]], dst, src, n, i + 1)

\* memcpy copying slot by slot from the high end down.
RECURSIVE memcpy_down(_, _, _, _)
memcpy_down(m, dst, src, i) ==
    IF Evaluated(m) /\ i <= 0 THEN m
    ELSE memcpy_down([m EXCEPT ![dst + i - 1] = m[src + i - 1]], dst, src, i - 1)

\* memcpy: on overlapping regions the behaviour is undefined; what the build
\* produces is one of the two copy orders, fixed by the C library in use.
memcpy(m, dst, src, n) ==
    IF memcpy_backward THEN memcpy_down(m, dst, src, n)
    ELSE memcpy_up(m, dst, src, n, 0)

\* memmove: defined on overlapping regions, copies as if through a temporary.
memmove(m, dst, src, n) ==
    [i \in DOMAIN m |-> IF dst <= i /\ i < dst + n THEN m[src + (i - dst)] ELSE m[i]]

copy(m, first, last, out) ==
    LET n == last - first
    IN  [m |-> memcpy(m, out, first, n), ret |-> out + n]

RECURSIVE reverse_loop(_, _, _)
reverse_loop(m, first, last) ==
    IF Evaluated(m) /\ first < last
    THEN reverse_loop(swap(m, first, last), first + 1, last - 1)
    ELSE m

reverse(m, first, last) ==
    IF first = last THEN m ELSE reverse_loop(m, first, last - 1)

(***************************************************************************)
(* min_element                                                             *)
(***************************************************************************)
\* min_element that returns first without looking.
min_element_unsearched(m, first, last) == first

RECURSIVE min_element_loop(_, _, _, _)
min_element_loop(m, first, last, best) ==
    IF first = last THEN best
    ELSE min_element_loop(m, first + 1, last,
                          IF compare(m[first], m[best]) < 0 THEN first ELSE best)

min_element(m, first, last) ==
    IF first = last THEN last ELSE min_element_loop(m, first + 1, last, first)

(***************************************************************************)
(* Sorting engine: unguarded insertion sort, Hoare partition, quicksort    *)
(* with early stop, sort.                                                  *)
(***************************************************************************)
\* The inner loop of _insertion_sort_unguarded: shift right while x < *prev.
\* There is no check against the start of the range.
RECURSIVE _insertion_shift(_, _, _)
_insertion_shift(m, x, prev) ==
    IF compare(x, m[prev]) < 0
    THEN _insertion_shift([m EXCEPT ![prev + 1] = m[prev]], x, prev - 1)
    ELSE [m EXCEPT ![prev + 1] = x]

RECURSIVE _insertion_loop(_, _, _)
_insertion_loop(m, first, last) ==
    IF Evaluated(m) /\ first = last THEN m
    ELSE _insertion_loop(_insertion_shift(m, m[first], first - 1), first + 1, last)

_insertion_sort_unguarded(m, first, last) ==
    IF first = last THEN m ELSE _insertion_loop(m, first + 1, last)

insertion_sort(m, first, last) ==
    IF first = last THEN m
    ELSE IF first + 1 = last THEN m
    ELSE LET min == min_element(m, first, last)
         IN  _insertion_sort_unguarded(swap(m, first, min), first + 1, last)

SIZE_WHEN_INSERTION_IS_FASTER_SORT == 32

RECURSIVE _partition_up(_, _, _)
_partition_up(m, first, pivot) ==
    IF compare(m[first], pivot) < 0 THEN _partition_up(m, first + 1, pivot) ELSE first

RECURSIVE _partition_down(_, _, _)
_partition_down(m, last, pivot) ==
    IF compare(pivot, m[last]) < 0 THEN _partition_down(m, last - 1, pivot) ELSE last

\* The loop of _sort_partition without the swap.
RECURSIVE _partition_loop_unswapped(_, _, _, _)
_partition_loop_unswapped(m, first, last, pivot) ==
    LET f == _partition_up(m, first, pivot)
        l == _partition_down(m, last, pivot)
    IN  IF f >= l THEN [m |-> m, ret |-> l + 1]
        ELSE _partition_loop_unswapped(m, f + 1, l - 1, pivot)

RECURSIVE _partition_loop(_, _, _, _)
_partition_loop(m, first, last, pivot) ==
    LET f == _partition_up(m, first, pivot)
        l == _partition_down(m, last, pivot)
    IN  IF f >= l THEN [m |-> m, ret |-> l + 1]
        ELSE _partition_loop(swap(m, f, l), f + 1, l - 1, pivot)

\* _sort_partition with the last element as the pivot.
_sort_partition_last_pivot(m, first, last) ==
    _partition_loop(m, first, last - 1, m[last - 1])

_sort_partition(m, first, last) ==
    LET n == last - first
        pivot == m[first + ((n - 1) \div 2)]
    IN  _partition_loop(m, first, last - 1, pivot)

RECURSIVE _quick_sort_early_stop(_, _, _)
_quick_sort_early_stop(m, first, last) ==
    IF last - first > SIZE_WHEN_INSERTION_IS_FASTER_SORT
    THEN LET p == _sort_partition(m, first, last)
             r == _quick_sort_early_stop(p.m, p.ret, last)
         IN  _quick_sort_early_stop(r.m, first, p.ret)
    ELSE [m |-> m, ret |-> last]

\* sort with the final insertion pass run over the left-most partition only.
sort_short_pass(m, first, last) ==
    LET q == _quick_sort_early_stop(m, first, last)
        min == min_element(q.m, first, q.ret)
    IN  _insertion_sort_unguarded(swap(q.m, first, min), first, q.ret)

sort(m, first, last) ==
    LET q == _quick_sort_early_stop(m, first, last)
        min == min_element(q.m, first, q.ret)
    IN  _insertion_sort_unguarded(swap(q.m, first, min), first, last)

(***************************************************************************)
(* merge and merge_with_buffer.  With its result merge reports the ties of *)
(* the run: for every comparison of the two heads that came out zero, the  *)
(* slots the heads were and the slot that was written (a record of the     *)
(* run for the properties below, not program state).                       *)
(***************************************************************************)
\* The result of a call that ends by copying the rest of one input.
WithTies(c, seen) == [m |-> c.m, ret |-> c.ret, ties |-> seen]

Tie(first_1, first_2, out) == [head_1 |-> first_1, head_2 |-> first_2, out |-> out]

RECURSIVE merge_loop(_, _, _, _, _, _, _)
merge_loop(m, first_1, last_1, first_2, last_2, out, seen) ==
    LET result == compare(m[first_1], m[first_2])
        seen2 == IF result = 0 THEN seen \cup {Tie(first_1, first_2, out)} ELSE seen
    IN  IF result >= 0
        THEN LET m2 == [m EXCEPT ![out] = m[first_2]]
             IN  IF first_2 + 1 = last_2
                 THEN WithTies(copy(m2, first_1, last_1, out + 1), seen2)
                 ELSE merge_loop(m2, first_1, last_1, first_2 + 1, last_2, out + 1, seen2)
        ELSE LET m1 == [m EXCEPT ![out] = m[first_1]]
             IN  IF first_1 + 1 = last_1
                 THEN WithTies(copy(m1, first_2, last_2, out + 1), seen2)
                 ELSE merge_loop(m1, first_1 + 1, last_1, first_2, last_2, out + 1, seen2)

\* merge that, when one input is empty, copies the empty one.
merge_copies_empty(m, first_1, last_1, first_2, last_2, out) ==
    IF first_2 = last_2 THEN WithTies(copy(m, first_2, last_2, out), {})
    ELSE IF first_1 = last_1 THEN WithTies(copy(m, first_1, last_1, out), {})
    ELSE merge_loop(m, first_1, last_1, first_2, last_2, out, {})

\* merge whose loop takes the second input only when it is strictly smaller.
RECURSIVE merge_loop_ties_first(_, _, _, _, _, _, _)
merge_loop_ties_first(m, first_1, last_1, first_2, last_2, out, seen) ==
    LET result == compare(m[first_1], m[first_2])
        seen2 == IF result = 0 THEN seen \cup {Tie(first_1, first_2, out)} ELSE seen
    IN  IF result > 0
        THEN LET m2 == [m EXCEPT ![out] = m[first_2]]
             IN  IF first_2 + 1 = last_2
                 THEN WithTies(copy(m2, first_1, last_1, out + 1), seen2)
                 ELSE merge_loop_ties_first(m2, first_1, last_1, first_2 + 1, last_2,
                                            out + 1, seen2)
        ELSE LET m1 == [m EXCEPT ![out] = m[first_1]]
             IN  IF first_1 + 1 = last_1
                 THEN WithTies(copy(m1, first_2, last_2, out + 1), seen2)
                 ELSE merge_loop_ties_first(m1, first_1 + 1, last_1, first_2, last_2,
                                            out + 1, seen2)

merge_ties_first(m, first_1, last_1, first_2, last_2, out) ==
    IF first_2 = last_2 THEN WithTies(copy(m, first_1, last_1, out), {})
    ELSE IF first_1 = last_1 THEN WithTies(copy(m, first_2, last_2, out), {})
    ELSE merge_loop_ties_first(m, first_1, last_1, first_2, last_2, out, {})

merge(m, first_1, last_1, first_2, last_2, out) ==
    IF first_2 = last_2 THEN WithTies(copy(m, first_1, last_1, out), {})
    ELSE IF first_1 = last_1 THEN WithTies(copy(m, first_2, last_2, out), {})
    ELSE merge_loop(m, first_1, last_1, first_2, last_2, out, {})

\* The arguments of a call of merge, which its loop advances.
Cursors(first_1, last_1, first_2, last_2, out) ==
    [first_1 |-> first_1, last_1 |-> last_1, first_2 |-> first_2, last_2 |-> last_2,
     out |-> out]

\* An iteration of the loop of merge, up to the test that ends it: the
\* memory and the cursors after it.
merge_iteration(m, c) ==
    IF compare(m[c.first_1], m[c.first_2]) >= 0
    THEN [m |-> [m EXCEPT ![c.out] = m[c.first_2]],
          cur |-> [c EXCEPT !.out = c.out + 1, !.first_2 = c.first_2 + 1]]
    ELSE [m |-> [m EXCEPT ![c.out] = m[c.first_1]],
          cur |-> [c EXCEPT !.out = c.out + 1, !.first_1 = c.first_1 + 1]]

\* merge_with_buffer up to its call of merge, without the copy to the buffer.
merge_with_buffer_call_unbuffered(m, first, middle, last, buffer) ==
    [m |-> m, cur |-> Cursors(first, middle, middle, last, first)]

\* merge_with_buffer up to its call of merge: the memory after the copy and
\* the arguments of the call.
merge_with_buffer_call(m, first, middle, last, buffer) ==
    LET b == copy(m, first, middle, buffer)
    IN  [m |-> b.m, cur |-> Cursors(buffer, b.ret, middle, last, first)]

\* merge_with_buffer that merges the two halves straight into their own
\* storage, without moving the first half to the buffer.
merge_with_buffer_unbuffered(m, first, middle, last, buffer) ==
    merge(m, first, middle, middle, last, first).m

merge_with_buffer(m, first, middle, last, buffer) ==
    LET b == copy(m, first, middle, buffer)
    IN  merge(b.m, buffer, b.ret, middle, last, first).m

(***************************************************************************)
(* Stable sorting engine.                                                  *)
(***************************************************************************)
\* _rotate_right_by_one that exchanges the two ends instead.
_rotate_right_by_one_swapped(m, first, last) ==
    IF first = last THEN m ELSE swap(m, first, last - 1)

_rotate_right_by_one(m, first, last) ==
    IF first = last THEN m
    ELSE LET butlast == last - 1
             temp == m[butlast]
         IN  [memmove(m, first + 1, first, butlast - first) EXCEPT ![first] = temp]

insertion_sort_stable(m, first, last) ==
    IF first = last THEN m
    ELSE IF first + 1 = last THEN m
    ELSE LET min == min_element(m, first, last) + 1
         IN  _insertion_sort_unguarded(_rotate_right_by_one(m, first, min),
                                       first + 1, last)

SIZE_WHEN_INSERTION_IS_FASTER_MERGE == 24

RECURSIVE _merge_sort_adaptive_with_buffer_n(_, _, _, _)
_merge_sort_adaptive_with_buffer_n(m, first, cnt, buffer) ==
    IF cnt < 1 THEN [m |-> m, ret |-> first]
    ELSE IF cnt <= SIZE_WHEN_INSERTION_IS_FASTER_MERGE
    THEN [m |-> insertion_sort_stable(m, first, first + cnt), ret |-> first + cnt]
    ELSE LET half == cnt \div 2
         IN  IF half < 1 THEN [m |-> m, ret |-> first + 1]
             ELSE LET l == _merge_sort_adaptive_with_buffer_n(m, first, half, buffer)
                      middle == l.ret
                      r == _merge_sort_adaptive_with_buffer_n(l.m, middle, cnt - half, buffer)
                      last == r.ret
                  IN  [m |-> merge_with_buffer(r.m, first, middle, last, buffer),
                       ret |-> last]

\* malloc((count >> 1) * sizeof(T)): a fresh block whose contents are
\* indeterminate; the block is the scratch region of the memory at `buffer`,
\* and free() gives it back (its contents are dead afterwards).
stable_sort(m, first, last, buffer) ==
    LET cnt == last - first
        fresh == [i \in DOMAIN m |->
                    IF buffer <= i /\ i < buffer + (cnt \div 2) THEN Poison ELSE m[i]]
    IN  _merge_sort_adaptive_with_buffer_n(fresh, first, cnt, buffer).m

stable_sort_with_buffer(m, first, last, buffer) ==
    _merge_sort_adaptive_with_buffer_n(m, first, last - first, buffer).m

(***************************************************************************)
(* Set operations over sorted ranges.  Like merge, set_union reports with  *)
(* its result the ties of the run.                                         *)
(***************************************************************************)
RECURSIVE set_union_loop(_, _, _, _, _, _, _)
set_union_loop(m, first_1, last_1, first_2, last_2, out, seen) ==
    IF first_1 = last_1 THEN WithTies(copy(m, first_2, last_2, out), seen)
    ELSE IF first_2 = last_2 THEN WithTies(copy(m, first_1, last_1, out), seen)
    ELSE LET result == compare(m[first_1], m[first_2])
         IN  IF result = 0
             THEN set_union_loop([m EXCEPT ![out] = m[first_1]],
                                 first_1 + 1, last_1, first_2 + 1, last_2, out + 1,
                                 seen \cup {Tie(first_1, first_2, out)})
             ELSE IF result >= 0
             THEN set_union_loop([m EXCEPT ![out] = m[first_2]],
                                 first_1, last_1, first_2 + 1, last_2, out + 1, seen)
             ELSE set_union_loop([m EXCEPT ![out] = m[first_1]],
                                 first_1 + 1, last_1, first_2, last_2, out + 1, seen)

\* set_union whose loop writes the second range's element on a tie.
RECURSIVE set_union_loop_second(_, _, _, _, _, _, _)
set_union_loop_second(m, first_1, last_1, first_2, last_2, out, seen) ==
    IF first_1 = last_1 THEN WithTies(copy(m, first_2, last_2, out), seen)
    ELSE IF first_2 = last_2 THEN WithTies(copy(m, first_1, last_1, out), seen)
    ELSE LET result == compare(m[first_1], m[first_2])
         IN  IF result >= 0
             THEN set_union_loop_second(
                      [m EXCEPT ![out] = m[first_2]],
                      IF result = 0 THEN first_1 + 1 ELSE first_1, last_1,
                      first_2 + 1, last_2, out + 1,
                      IF result = 0 THEN seen \cup {Tie(first_1, first_2, out)}
                      ELSE seen)
             ELSE set_union_loop_second([m EXCEPT ![out] = m[first_1]],
                                        first_1 + 1, last_1, first_2, last_2, out + 1,
                                        seen)

set_union_second(m, first_1, last_1, first_2, last_2, out) ==
    set_union_loop_second(m, first_1, last_1, first_2, last_2, out, {})

set_union(m, first_1, last_1, first_2, last_2, out) ==
    set_union_loop(m, first_1, last_1, first_2, last_2, out, {})

RECURSIVE set_difference_loop(_, _, _, _, _, _)
set_difference_loop(m, first_1, last_1, first_2, last_2, out) ==
    LET result == compare(m[first_1], m[first_2])
    IN  IF result = 0
        THEN IF first_1 + 1 = last_1 THEN [m |-> m, ret |-> out]
             ELSE IF first_2 + 1 = last_2 THEN copy(m, first_1 + 1, last_1, out)
             ELSE set_difference_loop(m, first_1 + 1, last_1, first_2 + 1, last_2, out)
        ELSE IF result < 0
        THEN LET m1 == IF out # first_1 THEN [m EXCEPT ![out] = m[first_1]] ELSE m
             IN  IF first_1 + 1 = last_1 THEN [m |-> m1, ret |-> out + 1]
                 ELSE set_difference_loop(m1, first_1 + 1, last_1, first_2, last_2,
                                          out + 1)
        ELSE IF first_2 + 1 = last_2 THEN copy(m, first_1, last_1, out)
             ELSE set_difference_loop(m, first_1, last_1, first_2 + 1, last_2, out)

set_difference(m, first_1, last_1, first_2, last_2, out) ==
    IF first_1 = last_1 \/ first_2 = last_2 THEN [m |-> m, ret |-> out]
    ELSE set_difference_loop(m, first_1, last_1, first_2, last_2, out)

(***************************************************************************)
(* Selection engine: nth_element.  The result carries the value of `first` *)
(* when the loop ends, which the code asserts to be nth.                   *)
(***************************************************************************)
\* An iteration of the loop of nth_element that keeps the left part when
\* the partition point is nth.
nth_element_iteration_left(m, first, nth, last) ==
    LET p == _sort_partition(m, first, last)
    IN  IF p.ret < nth
        THEN [m |-> p.m, first |-> p.ret, last |-> last]
        ELSE [m |-> p.m, first |-> first, last |-> p.ret]

\* An iteration of the loop of nth_element: the memory, first and last
\* after it.
nth_element_iteration(m, first, nth, last) ==
    LET p == _sort_partition(m, first, last)
    IN  IF p.ret <= nth
        THEN [m |-> p.m, first |-> p.ret, last |-> last]
        ELSE [m |-> p.m, first |-> first, last |-> p.ret]

RECURSIVE nth_element_loop(_, _, _, _)
nth_element_loop(m, first, nth, last) ==
    IF last - first > 1
    THEN LET p == _sort_partition(m, first, last)
         IN  IF p.ret <= nth
             THEN nth_element_loop(p.m, p.ret, nth, last)
             ELSE nth_element_loop(p.m, first, nth, p.ret)
    ELSE [m |-> m, first |-> first]

\* nth_element that keeps the left part when the partition point is nth.
RECURSIVE nth_element_loop_left(_, _, _, _)
nth_element_loop_left(m, first, nth, last) ==
    IF last - first > 1
    THEN LET p == _sort_partition(m, first, last)
         IN  IF p.ret < nth
             THEN nth_element_loop_left(p.m, p.ret, nth, last)
             ELSE nth_element_loop_left(p.m, first, nth, p.ret)
    ELSE [m |-> m, first |-> first]

nth_element_left(m, first, nth, last) == nth_element_loop_left(m, first, nth, last)

nth_element(m, first, nth, last) == nth_element_loop(m, first, nth, last)

(***************************************************************************)
(* Heap engine.                                                            *)
(***************************************************************************)
\* is_heap_until reports, with the position it returns, the slots whose
\* elements it handed to the comparator, and whether it went on to a slot
\* outside the storage (a record of the run, not program state).  The loop
\* ends only at first == last or at a child greater than its parent.
Ran(r, seen, f) == [ret |-> r, accessed |-> seen, fault |-> f]

RECURSIVE is_heap_until_loop(_, _, _, _, _)
is_heap_until_loop(m, half, first, last, seen) ==
    IF first = last THEN Ran(first, seen, FALSE)
    ELSE IF first \notin DOMAIN m THEN Ran(first, seen \cup {half, first}, TRUE)
    ELSE IF compare(m[half], m[first]) < 0 THEN Ran(first, seen \cup {half, first}, FALSE)
    ELSE IF first + 1 = last THEN Ran(first + 1, seen \cup {half, first}, FALSE)
    ELSE IF first + 1 \notin DOMAIN m
         THEN Ran(first + 1, seen \cup {half, first, first + 1}, TRUE)
    ELSE IF compare(m[half], m[first + 1]) < 0
         THEN Ran(first + 1, seen \cup {half, first, first + 1}, FALSE)
    ELSE is_heap_until_loop(m, half + 1, first + 2, last,
                            seen \cup {half, first, first + 1})

\* T *half = first; ++first; then the loop.
is_heap_until_run(m, first, last) == is_heap_until_loop(m, first, first + 1, last, {})

is_heap_until(m, first, last) == is_heap_until_run(m, first, last).ret

is_heap(m, first, last) == is_heap_until(m, first, last) = last

RECURSIVE push_heap_loop(_, _, _)
push_heap_loop(m, first, index) ==
    IF index # 0
    THEN LET parent_index == (index - 1) \div 2
             elem == first + index
             parent == first + parent_index
         IN  IF compare(m[elem], m[parent]) <= 0 THEN m
             ELSE push_heap_loop(swap(m, elem, parent), first, parent_index)
    ELSE m

push_heap_n(m, first, cnt) ==
    IF cnt <= 1 THEN m ELSE push_heap_loop(m, first, cnt - 1)

push_heap(m, first, last) == push_heap_n(m, first, last - first)

RECURSIVE pop_heap_loop(_, _, _, _)
pop_heap_loop(m, first, cnt, index0) ==
    LET elem == first + index0
        index == index0 * 2 + 1
        child == first + index
    IN  IF index >= cnt THEN m
        ELSE IF compare(m[child], m[elem]) > 0
        THEN \* left child is larger; if right is larger use that
             IF index + 1 < cnt /\ compare(m[child + 1], m[child]) > 0
             THEN pop_heap_loop(swap(m, elem, child + 1), first, cnt, index + 1)
             ELSE pop_heap_loop(swap(m, elem, child), first, cnt, index)
        ELSE IF index + 1 >= cnt \/ compare(m[child + 1], m[elem]) <= 0 THEN m
             ELSE \* right child is larger
                  pop_heap_loop(swap(m, elem, child + 1), first, cnt, index + 1)

\* pop_heap_n whose sift-down looks at the left child only.
RECURSIVE pop_heap_loop_left(_, _, _, _)
pop_heap_loop_left(m, first, cnt, index0) ==
    LET elem == first + index0
        index == index0 * 2 + 1
        child == first + index
    IN  IF index >= cnt THEN m
        ELSE IF compare(m[child], m[elem]) > 0
        THEN pop_heap_loop_left(swap(m, elem, child), first, cnt, index)
        ELSE m

pop_heap_n_left(m, first, cnt) ==
    IF cnt <= 1 THEN m
    ELSE pop_heap_loop_left(swap(m, first, first + (cnt - 1)), first, cnt - 1, 0)

pop_heap_n(m, first, cnt) ==
    IF cnt <= 1 THEN m
    ELSE pop_heap_loop(swap(m, first, first + (cnt - 1)), first, cnt - 1, 0)

pop_heap(m, first, last) == pop_heap_n(m, first, last - first)

(***************************************************************************)
(* next_permutation                                                        *)
(***************************************************************************)
\* while (l != first && cmp(next, l) >= 0) { l = next; --next; }
\* with next = l - 1 throughout; the value is l when the loop ends.
RECURSIVE next_permutation_suffix(_, _, _)
next_permutation_suffix(m, first, l) ==
    IF l # first /\ compare(m[l - 1], m[l]) >= 0
    THEN next_permutation_suffix(m, first, l - 1)
    ELSE l

\* while (f != next && cmp(next, f) >= 0) --f;
RECURSIVE next_permutation_find(_, _, _)
next_permutation_find(m, next, f) ==
    IF f # next /\ compare(m[next], m[f]) >= 0
    THEN next_permutation_find(m, next, f - 1)
    ELSE f

\* next_permutation that swaps the pivot but leaves the suffix as it is.
next_permutation_no_reverse(m, first, last) ==
    IF first = last THEN [m |-> m, ret |-> 0]
    ELSE LET l == next_permutation_suffix(m, first, last - 1)
             next == l - 1
         IN  IF l # first
             THEN LET f == next_permutation_find(m, next, last - 1)
                  IN  [m |-> swap(m, next, f), ret |-> 1]
             ELSE [m |-> reverse(m, first, last), ret |-> 0]

next_permutation(m, first, last) ==
    IF first = last THEN [m |-> m, ret |-> 0]
    ELSE LET l == next_permutation_suffix(m, first, last - 1)
             next == l - 1
         IN  IF l # first
             THEN LET f == next_permutation_find(m, next, last - 1)
                  IN  [m |-> reverse(swap(m, next, f), l, last), ret |-> 1]
             ELSE [m |-> reverse(m, first, last), ret |-> 0]

(***************************************************************************)
(* make_heap and sort_heap.                                                *)
(***************************************************************************)
\* for (size_t n = 2; n <= count; ++n) push_heap_n(first, n)
RECURSIVE make_heap_loop(_, _, _, _)
make_heap_loop(m, first, n, cnt) ==
    IF Evaluated(m) /\ n <= cnt
    THEN make_heap_loop(push_heap_n(m, first, n), first, n + 1, cnt)
    ELSE m

\* make_heap_n whose loop starts at n = 3.
make_heap_n_from_three(m, first, cnt) == make_heap_loop(m, first, 3, cnt)

make_heap_n(m, first, cnt) == make_heap_loop(m, first, 2, cnt)

make_heap(m, first, last) == make_heap_n(m, first, last - first)

\* while (last != first) { pop_heap(first, last); --last; }
RECURSIVE sort_heap(_, _, _)
sort_heap(m, first, last) ==
    IF Evaluated(m) /\ last # first
    THEN sort_heap(pop_heap(m, first, last), first, last - 1)
    ELSE m

(***************************************************************************)
(* partial_sort                                                            *)
(***************************************************************************)
\* T *p = middle; while (p != last) { if (*p < *first) {...} ++p; }
RECURSIVE partial_sort_loop(_, _, _, _, _)
partial_sort_loop(m, first, middle, p, last) ==
    IF Evaluated(m) /\ p = last THEN m
    ELSE IF compare(m[p], m[first]) < 0
    THEN LET n == middle - first
             popped == pop_heap_n(m, first, n)
             swapped == swap(popped, middle - 1, p)
         IN  partial_sort_loop(push_heap_n(swapped, first, n), first, middle, p + 1, last)
    ELSE partial_sort_loop(m, first, middle, p + 1, last)

\* partial_sort that leaves the window as the heap the loop built.
partial_sort_unsorted(m, first, middle, last) ==
    LET n == middle - first
    IN  IF n = 0 THEN m
        ELSE partial_sort_loop(make_heap_n(m, first, n), first, middle, middle, last)

partial_sort(m, first, middle, last) ==
    LET n == middle - first
    IN  IF n = 0 THEN m
        ELSE sort_heap(partial_sort_loop(make_heap_n(m, first, n), first, middle,
                                         middle, last),
                       first, middle)

(***************************************************************************)
(* Predicates, partition_point and the binary searches built on it.        *)
(* A predicate is a pointer to a function and a context: the name of the   *)
(* function and the value of the context.                                  *)
(***************************************************************************)
\* The predicates of lower_bound and upper_bound; the closure c holds the
\* value searched for.
_lower_bound_predicate(x, c) == compare(x, c.value) < 0

_upper_bound_predicate(x, c) == compare(c.value, x) >= 0

\* A caller's predicate, like pred_is_even: any function of the key.  The
\* context is the set of keys it holds for.
pred_key_in(x, ctx) == x.key \in ctx

\* predicate(x, predicate_ctx), through the pointer.
Invoke(predicate, x, ctx) ==
    CASE predicate = "_lower_bound_predicate" -> _lower_bound_predicate(x, ctx)
      [] predicate = "_upper_bound_predicate" -> _upper_bound_predicate(x, ctx)
      [] predicate = "pred_key_in" -> pred_key_in(x, ctx)

\* unique that overwrites the kept element with each later element of its run.
RECURSIVE unique_loop_last(_, _, _, _)
unique_loop_last(m, out, first, last) ==
    IF first = last THEN [m |-> m, ret |-> out + 1]
    ELSE IF compare(m[out], m[first]) # 0
         THEN unique_loop_last([m EXCEPT ![out + 1] = m[first]], out + 1, first + 1, last)
         ELSE unique_loop_last([m EXCEPT ![out] = m[first]], out, first + 1, last)

unique_last(m, first, last) ==
    IF first = last THEN [m |-> m, ret |-> first]
    ELSE unique_loop_last(m, first, first + 1, last)

\* The loop of unique; the result is the memory and the position returned.
RECURSIVE unique_loop(_, _, _, _)
unique_loop(m, out, first, last) ==
    IF first = last THEN [m |-> m, ret |-> out + 1]
    ELSE IF compare(m[out], m[first]) # 0
         THEN unique_loop([m EXCEPT ![out + 1] = m[first]], out + 1, first + 1, last)
         ELSE unique_loop(m, out, first + 1, last)

unique(m, first, last) ==
    IF first = last THEN [m |-> m, ret |-> first]
    ELSE unique_loop(m, first, first + 1, last)

RECURSIVE unique_count_loop(_, _, _, _, _)
unique_count_loop(m, group, first, last, n) ==
    IF first = last THEN n
    ELSE IF compare(m[group], m[first]) # 0
         THEN unique_count_loop(m, first, first + 1, last, n + 1)
         ELSE unique_count_loop(m, group, first + 1, last, n)

unique_count(m, first, last) ==
    IF first = last THEN 0
    ELSE unique_count_loop(m, first, first + 1, last, 1)

RECURSIVE find_if(_, _, _, _, _)
find_if(m, first, last, predicate, ctx) ==
    IF first = last THEN first
    ELSE IF Invoke(predicate, m[first], ctx) THEN first
    ELSE find_if(m, first + 1, last, predicate, ctx)

RECURSIVE find_if_not(_, _, _, _, _)
find_if_not(m, first, last, predicate, ctx) ==
    IF first = last THEN first
    ELSE IF ~Invoke(predicate, m[first], ctx) THEN first
    ELSE find_if_not(m, first + 1, last, predicate, ctx)

is_partitioned(m, first, last, predicate, ctx) ==
    LET first1 == find_if_not(m, first, last, predicate, ctx)
        first2 == find_if(m, first1, last, predicate, ctx)
    IN  first2 = last

\* partition that counts the elements satisfying the predicate and moves none.
RECURSIVE partition_loop_unmoved(_, _, _, _, _, _)
partition_loop_unmoved(m, out, first, last, predicate, ctx) ==
    IF first = last THEN [m |-> m, ret |-> out]
    ELSE IF Invoke(predicate, m[first], ctx)
         THEN partition_loop_unmoved(m, out + 1, first + 1, last, predicate, ctx)
         ELSE partition_loop_unmoved(m, out, first + 1, last, predicate, ctx)

partition_unmoved(m, first, last, predicate, ctx) ==
    partition_loop_unmoved(m, first, first, last, predicate, ctx)

\* The loop of partition; the result is the memory and the position out.
RECURSIVE partition_loop(_, _, _, _, _, _)
partition_loop(m, out, first, last, predicate, ctx) ==
    IF first = last THEN [m |-> m, ret |-> out]
    ELSE IF Invoke(predicate, m[first], ctx)
         THEN partition_loop(swap(m, out, first), out + 1, first + 1, last, predicate, ctx)
         ELSE partition_loop(m, out, first + 1, last, predicate, ctx)

partition(m, first, last, predicate, ctx) ==
    partition_loop(m, first, first, last, predicate, ctx)

\* partition_point_n reports, with the position it returns, the slots it
\* evaluated the predicate at (a record of the run, not program state).
RECURSIVE partition_point_n_loop(_, _, _, _, _, _)
partition_point_n_loop(m, first, n, predicate, ctx, seen) ==
    IF n = 0 THEN Ran(first, seen, FALSE)
    ELSE LET half == n \div 2
             middle == first + half
         IN  IF Invoke(predicate, m[middle], ctx)
             THEN partition_point_n_loop(m, middle + 1, n - (half + 1), predicate, ctx,
                                         seen \cup {middle})
             ELSE partition_point_n_loop(m, first, half, predicate, ctx,
                                         seen \cup {middle})

\* partition_point_n that evaluates the predicate at the slot after middle.
RECURSIVE partition_point_n_loop_next(_, _, _, _, _, _)
partition_point_n_loop_next(m, first, n, predicate, ctx, seen) ==
    IF n = 0 THEN Ran(first, seen, FALSE)
    ELSE LET half == n \div 2
             middle == first + half
         IN  IF Invoke(predicate, m[middle + 1], ctx)
             THEN partition_point_n_loop_next(m, middle + 1, n - (half + 1), predicate,
                                              ctx, seen \cup {middle + 1})
             ELSE partition_point_n_loop_next(m, first, half, predicate, ctx,
                                              seen \cup {middle + 1})

partition_point_n_run_next(m, first, n, predicate, ctx) ==
    partition_point_n_loop_next(m, first, n, predicate, ctx, {})

partition_point_n_run(m, first, n, predicate, ctx) ==
    partition_point_n_loop(m, first, n, predicate, ctx, {})

partition_point_n(m, first, n, predicate, ctx) ==
    partition_point_n_run(m, first, n, predicate, ctx).ret

partition_point(m, first, last, predicate, ctx) ==
    partition_point_n(m, first, last - first, predicate, ctx)

lower_bound(m, first, last, value) ==
    partition_point(m, first, last, "_lower_bound_predicate", [value |-> value])

\* upper_bound with the predicate of lower_bound.
upper_bound_strict(m, first, last, value) ==
    partition_point(m, first, last, "_lower_bound_predicate", [value |-> value])

upper_bound(m, first, last, value) ==
    partition_point(m, first, last, "_upper_bound_predicate", [value |-> value])

binary_search(m, first, last, value) ==
    LET f == lower_bound(m, first, last, value)
    IN  f # last /\ compare(m[f], value) = 0

\* *lower and *upper, the two results of equal_range.
equal_range(m, first, last, value) ==
    LET lower == lower_bound(m, first, last, value)
    IN  [lower |-> lower, upper |-> upper_bound(m, lower, last, value)]

(***************************************************************************)
(* The slots a call reads or writes.  X_accessed(m, ...) follows the       *)
(* statements of X on the memory m and collects every slot X dereferences  *)
(* (itself, or by handing its address to the comparator, swap, memcpy or   *)
(* memmove).  A record of the run for the properties below, not program    *)
(* state.                                                                  *)
(***************************************************************************)
\* swap reads and writes both *a and *b.
swap_accessed(a, b) == {a, b}

\* memcpy and memmove of n > 0 elements read n slots and write n slots.
copy_accessed(first, last, out) ==
    (first..(last - 1)) \cup (out..(out + (last - first) - 1))

RECURSIVE min_element_loop_accessed(_, _, _, _)
min_element_loop_accessed(m, first, last, best) ==
    IF first = last THEN {}
    ELSE {first, best}
         \cup min_element_loop_accessed(m, first + 1, last,
                  IF compare(m[first], m[best]) < 0 THEN first ELSE best)

min_element_accessed(m, first, last) ==
    IF first = last THEN {} ELSE min_element_loop_accessed(m, first + 1, last, first)

RECURSIVE _insertion_shift_accessed(_, _, _)
_insertion_shift_accessed(m, x, prev) ==
    IF compare(x, m[prev]) < 0
    THEN {prev, prev + 1}
         \cup _insertion_shift_accessed([m EXCEPT ![prev + 1] = m[prev]], x, prev - 1)
    ELSE {prev, prev + 1}

RECURSIVE _insertion_loop_accessed(_, _, _)
_insertion_loop_accessed(m, first, last) ==
    IF Evaluated(m) /\ first = last THEN {}
    ELSE {first}
         \cup _insertion_shift_accessed(m, m[first], first - 1)
         \cup _insertion_loop_accessed(_insertion_shift(m, m[first], first - 1),
                                       first + 1, last)

_insertion_sort_unguarded_accessed(m, first, last) ==
    IF first = last THEN {} ELSE _insertion_loop_accessed(m, first + 1, last)

insertion_sort_accessed(m, first, last) ==
    IF first = last THEN {}
    ELSE IF first + 1 = last THEN {}
    ELSE LET min == min_element(m, first, last)
         IN  min_element_accessed(m, first, last)
             \cup swap_accessed(first, min)
             \cup _insertion_sort_unguarded_accessed(swap(m, first, min), first + 1, last)

RECURSIVE _partition_loop_accessed(_, _, _, _)
_partition_loop_accessed(m, first, last, pivot) ==
    LET f == _partition_up(m, first, pivot)
        l == _partition_down(m, last, pivot)
    IN  (first..f) \cup (l..last)
        \cup IF f >= l THEN {}
             ELSE swap_accessed(f, l)
                  \cup _partition_loop_accessed(swap(m, f, l), f + 1, l - 1, pivot)

_sort_partition_accessed(m, first, last) ==
    LET n == last - first
        pivot == m[first + ((n - 1) \div 2)]
    IN  {first + ((n - 1) \div 2)} \cup _partition_loop_accessed(m, first, last - 1, pivot)

RECURSIVE _quick_sort_early_stop_accessed(_, _, _)
_quick_sort_early_stop_accessed(m, first, last) ==
    IF last - first > SIZE_WHEN_INSERTION_IS_FASTER_SORT
    THEN LET p == _sort_partition(m, first, last)
             r == _quick_sort_early_stop(p.m, p.ret, last)
         IN  _sort_partition_accessed(m, first, last)
             \cup _quick_sort_early_stop_accessed(p.m, p.ret, last)
             \cup _quick_sort_early_stop_accessed(r.m, first, p.ret)
    ELSE {}

sort_accessed(m, first, last) ==
    LET q == _quick_sort_early_stop(m, first, last)
        min == min_element(q.m, first, q.ret)
    IN  _quick_sort_early_stop_accessed(m, first, last)
        \cup min_element_accessed(q.m, first, q.ret)
        \cup swap_accessed(first, min)
        \cup _insertion_sort_unguarded_accessed(swap(q.m, first, min), first, last)

_rotate_right_by_one_accessed(first, last) ==
    IF first = last THEN {}
    ELSE LET butlast == last - 1
         IN  {butlast} \cup copy_accessed(first, butlast, first + 1) \cup {first}

insertion_sort_stable_accessed(m, first, last) ==
    IF first = last THEN {}
    ELSE IF first + 1 = last THEN {}
    ELSE LET min == min_element(m, first, last) + 1
         IN  min_element_accessed(m, first, last)
             \cup _rotate_right_by_one_accessed(first, min)
             \cup _insertion_sort_unguarded_accessed(
                      _rotate_right_by_one(m, first, min), first + 1, last)

RECURSIVE merge_loop_accessed(_, _, _, _, _, _)
merge_loop_accessed(m, first_1, last_1, first_2, last_2, out) ==
    {first_1, first_2, out}
    \cup IF compare(m[first_1], m[first_2]) >= 0
         THEN LET m2 == [m EXCEPT ![out] = m[first_2]]
              IN  IF first_2 + 1 = last_2
                  THEN copy_accessed(first_1, last_1, out + 1)
                  ELSE merge_loop_accessed(m2, first_1, last_1, first_2 + 1, last_2,
                                           out + 1)
         ELSE LET m1 == [m EXCEPT ![out] = m[first_1]]
              IN  IF first_1 + 1 = last_1
                  THEN copy_accessed(first_2, last_2, out + 1)
                  ELSE merge_loop_accessed(m1, first_1 + 1, last_1, first_2, last_2,
                                           out + 1)

merge_accessed(m, first_1, last_1, first_2, last_2, out) ==
    IF first_2 = last_2 THEN copy_accessed(first_1, last_1, out)
    ELSE IF first_1 = last_1 THEN copy_accessed(first_2, last_2, out)
    ELSE merge_loop_accessed(m, first_1, last_1, first_2, last_2, out)

\* merge_with_buffer that copies the second sub-range to the buffer.
merge_with_buffer_accessed_second(m, first, middle, last, buffer) ==
    LET b == copy(m, middle, last, buffer)
    IN  copy_accessed(middle, last, buffer)
        \cup merge_accessed(b.m, first, middle, buffer, b.ret, first)

merge_with_buffer_accessed(m, first, middle, last, buffer) ==
    LET b == copy(m, first, middle, buffer)
    IN  copy_accessed(first, middle, buffer)
        \cup merge_accessed(b.m, buffer, b.ret, middle, last, first)

RECURSIVE _merge_sort_adaptive_with_buffer_n_accessed(_, _, _, _)
_merge_sort_adaptive_with_buffer_n_accessed(m, first, cnt, buffer) ==
    IF cnt < 1 THEN {}
    ELSE IF cnt <= SIZE_WHEN_INSERTION_IS_FASTER_MERGE
    THEN insertion_sort_stable_accessed(m, first, first + cnt)
    ELSE LET half == cnt \div 2
         IN  IF half < 1 THEN {}
             ELSE LET l == _merge_sort_adaptive_with_buffer_n(m, first, half, buffer)
                      middle == l.ret
                      r == _merge_sort_adaptive_with_buffer_n(l.m, middle, cnt - half,
                                                              buffer)
                      last == r.ret
                  IN  _merge_sort_adaptive_with_buffer_n_accessed(m, first, half, buffer)
                      \cup _merge_sort_adaptive_with_buffer_n_accessed(
                               l.m, middle, cnt - half, buffer)
                      \cup merge_with_buffer_accessed(r.m, first, middle, last, buffer)

stable_sort_with_buffer_accessed(m, first, last, buffer) ==
    _merge_sort_adaptive_with_buffer_n_accessed(m, first, last - first, buffer)

RECURSIVE push_heap_loop_accessed(_, _, _)
push_heap_loop_accessed(m, first, index) ==
    IF index # 0
    THEN LET parent_index == (index - 1) \div 2
             elem == first + index
             parent == first + parent_index
         IN  {elem, parent}
             \cup IF compare(m[elem], m[parent]) <= 0 THEN {}
                  ELSE push_heap_loop_accessed(swap(m, elem, parent), first, parent_index)
    ELSE {}

push_heap_n_accessed(m, first, cnt) ==
    IF cnt <= 1 THEN {} ELSE push_heap_loop_accessed(m, first, cnt - 1)

RECURSIVE make_heap_loop_accessed(_, _, _, _)
make_heap_loop_accessed(m, first, n, cnt) ==
    IF Evaluated(m) /\ n <= cnt
    THEN push_heap_n_accessed(m, first, n)
         \cup make_heap_loop_accessed(push_heap_n(m, first, n), first, n + 1, cnt)
    ELSE {}

make_heap_accessed(m, first, last) == make_heap_loop_accessed(m, first, 2, last - first)

RECURSIVE pop_heap_loop_accessed(_, _, _, _)
pop_heap_loop_accessed(m, first, cnt, index0) ==
    LET elem == first + index0
        index == index0 * 2 + 1
        child == first + index
    IN  IF index >= cnt THEN {}
        ELSE IF compare(m[child], m[elem]) > 0
        THEN IF index + 1 < cnt /\ compare(m[child + 1], m[child]) > 0
             THEN {child, elem, child + 1}
                  \cup pop_heap_loop_accessed(swap(m, elem, child + 1), first, cnt,
                                              index + 1)
             ELSE {child, elem} \cup (IF index + 1 < cnt THEN {child + 1} ELSE {})
                  \cup pop_heap_loop_accessed(swap(m, elem, child), first, cnt, index)
        ELSE IF index + 1 >= cnt THEN {child, elem}
             ELSE {child, elem, child + 1}
                  \cup IF compare(m[child + 1], m[elem]) <= 0 THEN {}
                       ELSE pop_heap_loop_accessed(swap(m, elem, child + 1), first, cnt,
                                                   index + 1)

pop_heap_n_accessed(m, first, cnt) ==
    IF cnt <= 1 THEN {}
    ELSE swap_accessed(first, first + (cnt - 1))
         \cup pop_heap_loop_accessed(swap(m, first, first + (cnt - 1)), first, cnt - 1, 0)

RECURSIVE sort_heap_accessed(_, _, _)
sort_heap_accessed(m, first, last) ==
    IF Evaluated(m) /\ last # first
    THEN pop_heap_n_accessed(m, first, last - first)
         \cup sort_heap_accessed(pop_heap(m, first, last), first, last - 1)
    ELSE {}

(***************************************************************************)
(* max_element and minmax_element.  The result of minmax_element is the    *)
(* pair of positions it stores in *out_min and *out_max.                   *)
(***************************************************************************)
RECURSIVE max_element_loop(_, _, _, _)
max_element_loop(m, first, last, best) ==
    IF first = last THEN best
    ELSE max_element_loop(m, first + 1, last,
                          IF compare(m[first], m[best]) > 0 THEN first ELSE best)

max_element(m, first, last) ==
    IF first = last THEN first ELSE max_element_loop(m, first + 1, last, first)

\* minmax_element that takes a new maximum only when it is strictly greater.
RECURSIVE minmax_element_strict_loop(_, _, _, _, _)
minmax_element_strict_loop(m, first, last, min_p, max_p) ==
    IF first # last /\ first + 1 # last
    THEN LET swapped == compare(m[first + 1], m[first]) < 0
             potential_min == IF swapped THEN first + 1 ELSE first
             potential_max == IF swapped THEN first ELSE first + 1
         IN  minmax_element_strict_loop(m, first + 2, last,
                 IF compare(m[potential_min], m[min_p]) < 0 THEN potential_min ELSE min_p,
                 IF compare(m[potential_max], m[max_p]) > 0 THEN potential_max ELSE max_p)
    ELSE IF first # last
         THEN IF compare(m[first], m[min_p]) < 0 THEN [min |-> first, max |-> max_p]
              ELSE IF compare(m[first], m[max_p]) > 0 THEN [min |-> min_p, max |-> first]
              ELSE [min |-> min_p, max |-> max_p]
         ELSE [min |-> min_p, max |-> max_p]

minmax_element_strict(m, first, last) ==
    IF first + 1 = last THEN [min |-> first, max |-> first]
    ELSE IF compare(m[first + 1], m[first]) < 0
         THEN minmax_element_strict_loop(m, first + 2, last, first + 1, first)
         ELSE minmax_element_strict_loop(m, first + 2, last, first, first + 1)

\* The loop over pairs of minmax_element and the odd element after it.
RECURSIVE minmax_element_loop(_, _, _, _, _)
minmax_element_loop(m, first, last, min_p, max_p) ==
    IF first # last /\ first + 1 # last
    THEN LET swapped == compare(m[first + 1], m[first]) < 0
             potential_min == IF swapped THEN first + 1 ELSE first
             potential_max == IF swapped THEN first ELSE first + 1
         IN  minmax_element_loop(m, first + 2, last,
                 IF compare(m[potential_min], m[min_p]) < 0 THEN potential_min ELSE min_p,
                 IF compare(m[potential_max], m[max_p]) >= 0 THEN potential_max ELSE max_p)
    ELSE IF first # last
         THEN IF compare(m[first], m[min_p]) < 0 THEN [min |-> first, max |-> max_p]
              ELSE IF compare(m[first], m[max_p]) >= 0 THEN [min |-> min_p, max |-> first]
              ELSE [min |-> min_p, max |-> max_p]
         ELSE [min |-> min_p, max |-> max_p]

\* minmax_element on a non-empty range (on an empty one it stores nothing).
minmax_element(m, first, last) ==
    IF first + 1 = last THEN [min |-> first, max |-> first]
    ELSE IF compare(m[first + 1], m[first]) < 0
         THEN minmax_element_loop(m, first + 2, last, first + 1, first)
         ELSE minmax_element_loop(m, first + 2, last, first, first + 1)

(***************************************************************************)
(* random_shuffle and sample.  rand is the sequence of values the calls of *)
(* rand() return, in order; k is the number of the next call.  A run       *)
(* reports the indices it drew (a record of the run, not program state).   *)
(***************************************************************************)
\* ARRAY_ALG_RANDOM(_n), given the value rand() returns.
ARRAY_ALG_RANDOM(n, r) == r % n

\* random_shuffle_n that draws after decrementing n.
RECURSIVE random_shuffle_n_loop_short(_, _, _, _, _, _)
random_shuffle_n_loop_short(m, first, n, rand, k, drawn) ==
    IF n > 1
    THEN LET j == ARRAY_ALG_RANDOM(n - 1, rand[k])
         IN  random_shuffle_n_loop_short(swap(m, first + (n - 1), first + j), first, n - 1,
                                         rand, k + 1, Append(drawn, j))
    ELSE [m |-> m, drawn |-> drawn]

random_shuffle_n_short(m, first, n, rand) ==
    random_shuffle_n_loop_short(m, first, n, rand, 1, <<>>)

RECURSIVE random_shuffle_n_loop(_, _, _, _, _, _)
random_shuffle_n_loop(m, first, n, rand, k, drawn) ==
    IF n > 1
    THEN LET j == ARRAY_ALG_RANDOM(n, rand[k])
         IN  random_shuffle_n_loop(swap(m, first + (n - 1), first + j), first, n - 1,
                                   rand, k + 1, Append(drawn, j))
    ELSE [m |-> m, drawn |-> drawn]

random_shuffle_n(m, first, n, rand) ==
    random_shuffle_n_loop(m, first, n, rand, 1, <<>>)

random_shuffle(m, first, last, rand) ==
    random_shuffle_n(m, first, last - first, rand)

\* sample whose second loop also stores when the draw equals count.
RECURSIVE sample_draw_loop_over(_, _, _, _, _, _, _, _, _, _)
sample_draw_loop_over(m, first, last, out, cnt, range, rand, k, written, drawn) ==
    IF first # last
    THEN LET j == ARRAY_ALG_RANDOM(range, rand[k])
         IN  IF j <= cnt
             THEN sample_draw_loop_over([m EXCEPT ![out + j] = m[first]], first + 1, last,
                                        out, cnt, range + 1, rand, k + 1,
                                        written \cup {out + j}, Append(drawn, j))
             ELSE sample_draw_loop_over(m, first + 1, last, out, cnt, range + 1, rand,
                                        k + 1, written, Append(drawn, j))
    ELSE [m |-> m, ret |-> out + cnt, written |-> written, drawn |-> drawn]

\* The second loop of sample: one draw for each element after the first count.
RECURSIVE sample_draw_loop(_, _, _, _, _, _, _, _, _, _)
sample_draw_loop(m, first, last, out, cnt, range, rand, k, written, drawn) ==
    IF first # last
    THEN LET j == ARRAY_ALG_RANDOM(range, rand[k])
         IN  IF j < cnt
             THEN sample_draw_loop([m EXCEPT ![out + j] = m[first]], first + 1, last, out,
                                   cnt, range + 1, rand, k + 1, written \cup {out + j},
                                   Append(drawn, j))
             ELSE sample_draw_loop(m, first + 1, last, out, cnt, range + 1, rand, k + 1,
                                   written, Append(drawn, j))
    ELSE [m |-> m, ret |-> out + cnt, written |-> written, drawn |-> drawn]

\* sample that returns out + count when the input runs out in the first loop.
RECURSIVE sample_copy_loop_count(_, _, _, _, _, _, _, _)
sample_copy_loop_count(m, first, last, out, cnt, i, rand, written) ==
    IF i < cnt
    THEN IF first = last
         THEN [m |-> m, ret |-> out + cnt, written |-> written, drawn |-> <<>>]
         ELSE sample_copy_loop_count([m EXCEPT ![out + i] = m[first]], first + 1, last, out,
                                     cnt, i + 1, rand, written \cup {out + i})
    ELSE sample_draw_loop(m, first, last, out, cnt, cnt + 1, rand, 1, written, <<>>)

\* The first loop of sample: the first count elements, or all of them.
RECURSIVE sample_copy_loop(_, _, _, _, _, _, _, _)
sample_copy_loop(m, first, last, out, cnt, i, rand, written) ==
    IF i < cnt
    THEN IF first = last
         THEN [m |-> m, ret |-> out + i, written |-> written, drawn |-> <<>>]
         ELSE sample_copy_loop([m EXCEPT ![out + i] = m[first]], first + 1, last, out, cnt,
                               i + 1, rand, written \cup {out + i})
    ELSE sample_draw_loop(m, first, last, out, cnt, cnt + 1, rand, 1, written, <<>>)

sample(m, first, last, out, cnt, rand) ==
    sample_copy_loop(m, first, last, out, cnt, 0, rand, {})

(***************************************************************************)
(* Helpers to state properties of ranges.                                  *)
(***************************************************************************)
\* [first, last) is non-decreasing under the comparator.
IsSortedRange(m, first, last) ==
    \A i \in first..(last - 2) : compare(m[i], m[i + 1]) <= 0

\* Number of slots of [first, last) that hold e.
Occurrences(m, first, last, e) ==
    Cardinality({i \in first..(last - 1) : m[i] = e})

\* [first, last) of m holds the same multiset of elements as [first0, last0) of m0.
SameMultiset(m, first, last, m0, first0, last0) ==
    /\ last - first = last0 - first0
    /\ \A i \in first0..(last0 - 1) :
          Occurrences(m, first, last, m0[i]) = Occurrences(m0, first0, last0, m0[i])

\* Elements with equal keys appear in [first, last) in the order of their tags.
EqualsKeepTagOrder(m, first, last) ==
    \A i, j \in first..(last - 1) :
        (i < j /\ compare(m[i], m[j]) = 0) => m[i].tag < m[j].tag

\* Some two slots of [first, last) compare equal.
HasDuplicates(m, first, last) ==
    \E i, j \in first..(last - 1) : i < j /\ compare(m[i], m[j]) = 0

(***************************************************************************)
(* The sorting machine: one array, one call of sort, stable_sort or        *)
(* stable_sort_with_buffer on it.                                          *)
(* Memory layout: the array in [0, n), the scratch buffer of n/2 slots in  *)
(* [n, n + n/2), and one slot of storage past it (the tests sort a prefix  *)
(* of a larger array).  The tag of an element is its index in the input.   *)
(***************************************************************************)
\* Key sequences (functions 0..n-1 -> key) of all short arrays.
ShortArrays == UNION {[0..(n - 1) -> Keys] : n \in 0..MaxLen}

\* Lengths just above the cutoffs, and just above twice the cutoffs (where a
\* half or a partition is itself above the cutoff).
LongLens ==
    UNION {(c + 1)..(c + Extra) :
             c \in {SIZE_WHEN_INSERTION_IS_FASTER_MERGE,
                    SIZE_WHEN_INSERTION_IS_FASTER_SORT,
                    2 * SIZE_WHEN_INSERTION_IS_FASTER_MERGE,
                    2 * SIZE_WHEN_INSERTION_IS_FASTER_SORT}}

\* Patterned long arrays: constant, ascending, descending, rotated, sawtooth
\* and few-valued sequences.
PatternArray(n, mod, mul, off) == [i \in 0..(n - 1) |-> (mul * i + off) % mod]

LongArrays ==
    UNION {UNION {{PatternArray(n, mod, mul, off) :
                     mul \in (0..MaxMod) \cup {mod - 1}, off \in 0..MaxMod} :
                  mod \in (1..MaxMod) \cup {n}} :
           n \in LongLens}

SortInputs == ShortArrays \cup LongArrays

ArrayLen(a) == Cardinality(DOMAIN a)

\* The memory that holds array a, its scratch buffer and the slot past it.
SortMemory(a) ==
    LET n == ArrayLen(a)
    IN  [i \in 0..(n + (n \div 2)) |-> IF i < n THEN Elem(a[i], i) ELSE Poison]

Idle == [first |-> 0, last |-> 0]

InitSort ==
    /\ \E a \in SortInputs :
          /\ mem = SortMemory(a)
          /\ args = [first |-> 0, last |-> ArrayLen(a), buffer |-> ArrayLen(a)]
    /\ mem0 = mem
    /\ op = "init"
    /\ ret = 0
    /\ count = 0
    /\ trues = 0
    /\ ties = {}
    /\ memcpy_backward \in BOOLEAN
    /\ accessed = {}
    /\ fault = FALSE

DoSort ==
    /\ op = "init"
    /\ mem' = sort(mem, args.first, args.last)
    /\ op' = "sort"
    /\ UNCHANGED <<mem0, args, ret, count, trues, ties, memcpy_backward, accessed, fault>>

DoStableSort ==
    /\ op = "init"
    /\ mem' = stable_sort(mem, args.first, args.last, args.buffer)
    /\ op' = "stable_sort"
    /\ UNCHANGED <<mem0, args, ret, count, trues, ties, memcpy_backward, accessed, fault>>

DoStableSortWithBuffer ==
    /\ op = "init"
    /\ mem' = stable_sort_with_buffer(mem, args.first, args.last, args.buffer)
    /\ op' = "stable_sort_with_buffer"
    /\ UNCHANGED <<mem0, args, ret, count, trues, ties, memcpy_backward, accessed, fault>>

NextSort == DoSort \/ DoStableSort \/ DoStableSortWithBuffer

SpecSort == InitSort /\ [][NextSort]_vars

\* C1: after sort(first, last) the range is non-decreasing under the
\* comparator and holds the same multiset of elements as the input, for
\* every input: short, longer than the 32-element cutoff, with duplicates.
SortSortsAndPermutes ==
    op = "sort" =>
        /\ IsSortedRange(mem, args.first, args.last)
        /\ SameMultiset(mem, args.first, args.last, mem0, args.first, args.last)

\* A sort of a range longer than the quicksort cutoff, with duplicates, that
\* had to move elements.
SortWitness ==
    /\ op = "sort"
    /\ args.last - args.first > SIZE_WHEN_INSERTION_IS_FASTER_SORT
    /\ HasDuplicates(mem0, args.first, args.last)
    /\ mem # mem0
    /\ IsSortedRange(mem, args.first, args.last)

\* C2: stable_sort and stable_sort_with_buffer keep elements that compare
\* equal in their input order (the tag of an element is its input index).
StableSortIsStable ==
    op \in {"stable_sort", "stable_sort_with_buffer"} =>
        EqualsKeepTagOrder(mem, args.first, args.last)

\* C3: stable_sort and stable_sort_with_buffer (scratch of n/2 slots) leave
\* the range non-decreasing and holding the same multiset as the input.
StableSortSortsAndPermutes ==
    op \in {"stable_sort", "stable_sort_with_buffer"} =>
        /\ IsSortedRange(mem, args.first, args.last)
        /\ SameMultiset(mem, args.first, args.last, mem0, args.first, args.last)

\* A stable sort of a range above the merge cutoff whose halves were merged.
StableSortWitness ==
    /\ op \in {"stable_sort", "stable_sort_with_buffer"}
    /\ args.last - args.first > SIZE_WHEN_INSERTION_IS_FASTER_MERGE
    /\ mem # mem0
    /\ IsSortedRange(mem, args.first, args.last)

(***************************************************************************)
(* The heap machine: an array of MaxHeap slots whose first `count` slots   *)
(* are the active range.  A step appends one element and calls push_heap   *)
(* over the grown range, or calls pop_heap over the active range and       *)
(* shrinks it by one.                                                      *)
(***************************************************************************)
HeapSlots == 0..(MaxHeap - 1)

InitHeap ==
    /\ count \in {0, 1}
    /\ \E k \in Keys :
          mem = [i \in HeapSlots |-> IF i < count THEN Elem(k, 0) ELSE Poison]
    /\ mem0 = mem
    /\ op = "init"
    /\ args = Idle
    /\ ret = 0
    /\ trues = 0
    /\ ties = {}
    /\ memcpy_backward = FALSE
    /\ accessed = {}
    /\ fault = FALSE

HeapPush ==
    /\ count < MaxHeap
    /\ \E k \in Keys :
          LET grown == [mem EXCEPT ![count] = Elem(k, 0)]
          IN  /\ mem0' = grown
              /\ mem' = push_heap(grown, 0, count + 1)
    /\ count' = count + 1
    /\ op' = "push_heap"
    /\ args' = [first |-> 0, last |-> count + 1]
    /\ UNCHANGED <<ret, trues, ties, memcpy_backward, accessed, fault>>

HeapPop ==
    /\ count >= 1
    /\ mem0' = mem
    /\ mem' = pop_heap(mem, 0, count)
    /\ count' = count - 1
    /\ op' = "pop_heap"
    /\ args' = [first |-> 0, last |-> count]
    /\ UNCHANGED <<ret, trues, ties, memcpy_backward, accessed, fault>>

NextHeap == HeapPush \/ HeapPop

SpecHeap == InitHeap /\ [][NextHeap]_vars

\* Every parent in [first, first + n) compares >= both of its children.
HeapOrdered(m, first, n) ==
    \A i \in 0..(n - 1) :
        /\ (2 * i + 1 < n => compare(m[first + i], m[first + 2 * i + 1]) >= 0)
        /\ (2 * i + 2 < n => compare(m[first + i], m[first + 2 * i + 2]) >= 0)

\* C4: after any sequence of (append, push_heap) and (pop_heap, shrink)
\* steps from an empty or one-element range, every parent of the active
\* range compares >= its children, and is_heap says so of a non-empty range.
HeapInvariant ==
    /\ HeapOrdered(mem, 0, count)
    /\ (count >= 1 => is_heap(mem, 0, count))

\* A pop_heap that had to sift the new root down through two levels.
HeapWitness ==
    /\ op = "pop_heap"
    /\ count >= 4
    /\ mem[0] # mem0[count]
    /\ \E i \in 3..(count - 1) : mem[i] = mem0[count] /\ mem0[i] # mem0[count]
    /\ HeapOrdered(mem, 0, count)

(***************************************************************************)
(* The selection machine: one array of n >= 1 elements, one call of        *)
(* nth_element(a, a + k, a + n).                                           *)
(***************************************************************************)
\* The positions tried on a long array: both ends and the middle.
NthPositions(n) == IF n <= MaxLen THEN 0..(n - 1) ELSE {0, n \div 2, n - 1}

InitNth ==
    /\ \E a \in SortInputs :
          /\ ArrayLen(a) >= 1
          /\ mem = [i \in 0..(ArrayLen(a) - 1) |-> Elem(a[i], i)]
          /\ \E k \in NthPositions(ArrayLen(a)) :
                args = [first |-> 0, nth |-> k, last |-> ArrayLen(a)]
    /\ mem0 = mem
    /\ op = "init"
    /\ ret = 0
    /\ count = 0
    /\ trues = 0
    /\ ties = {}
    /\ memcpy_backward = FALSE
    /\ accessed = {}
    /\ fault = FALSE

DoNthElement ==
    /\ op = "init"
    /\ LET r == nth_element(mem, args.first, args.nth, args.last)
       IN  /\ mem' = r.m
           /\ ret' = r.first
    /\ op' = "nth_element"
    /\ UNCHANGED <<mem0, args, count, trues, ties, memcpy_backward, accessed, fault>>

\* partial_sort(a, a + k, a + n) on the same arrays, for every k in 0..n
\* (on a long array: k = 0, n/2, n - 1 and n).
DoPartialSort ==
    /\ op = "init"
    /\ \E middle \in NthPositions(args.last - args.first) \cup {args.last} :
          /\ mem' = partial_sort(mem, args.first, middle, args.last)
          /\ args' = [args EXCEPT !.nth = middle]
    /\ op' = "partial_sort"
    /\ UNCHANGED <<mem0, ret, count, trues, ties, memcpy_backward, accessed, fault>>

NextNth == DoNthElement \/ DoPartialSort

SpecNth == InitNth /\ [][NextNth]_vars

\* e is what a full sort of [first, last) of m0 puts at offset k: fewer than
\* k + 1 elements are smaller than e, and at least k + 1 are not larger.
IsKthSmallest(e, m0, first, last, k) ==
    /\ Cardinality({i \in first..(last - 1) : compare(m0[i], e) < 0}) <= k
    /\ Cardinality({i \in first..(last - 1) : compare(m0[i], e) <= 0}) > k

\* C5: after nth_element(a, a+k, a+n), n >= 1, 0 <= k < n: the range holds
\* the multiset of the input, a[k] is what a full sort puts at k, everything
\* before k is <= a[k] and everything from k on is >= a[k].
NthElementSelects ==
    op = "nth_element" =>
        /\ SameMultiset(mem, args.first, args.last, mem0, args.first, args.last)
        /\ IsKthSmallest(mem[args.nth], mem0, args.first, args.last,
                         args.nth - args.first)
        /\ \A i \in args.first..(args.nth - 1) : compare(mem[i], mem[args.nth]) <= 0
        /\ \A i \in args.nth..(args.last - 1) : compare(mem[i], mem[args.nth]) >= 0

\* A selection strictly inside an array with duplicates that moved elements
\* and left the range unsorted.
NthElementWitness ==
    /\ op = "nth_element"
    /\ args.first < args.nth /\ args.nth < args.last - 1
    /\ HasDuplicates(mem0, args.first, args.last)
    /\ mem # mem0
    /\ ~IsSortedRange(mem, args.first, args.last)
    /\ IsKthSmallest(mem[args.nth], mem0, args.first, args.last, args.nth - args.first)

\* C13: after partial_sort(first, middle, last) the range holds the multiset
\* of the input, [first, middle) is ascending and holds at each offset what a
\* full sort puts there (the k smallest), every element of [middle, last)
\* compares >= every element of [first, middle), and with middle == first
\* the memory is as it was.
PartialSortSelects ==
    op = "partial_sort" =>
        /\ SameMultiset(mem, args.first, args.last, mem0, args.first, args.last)
        /\ IsSortedRange(mem, args.first, args.nth)
        /\ \A i \in args.first..(args.nth - 1) :
              IsKthSmallest(mem[i], mem0, args.first, args.last, i - args.first)
        /\ \A i \in args.first..(args.nth - 1) :
              \A j \in args.nth..(args.last - 1) : compare(mem[i], mem[j]) <= 0
        /\ (args.nth = args.first => mem = mem0)

\* A partial sort with a window strictly inside an array with duplicates, in
\* which an element from behind the window replaced one in it.
PartialSortWitness ==
    /\ op = "partial_sort"
    /\ args.nth - args.first >= 2 /\ args.nth < args.last
    /\ HasDuplicates(mem0, args.first, args.last)
    /\ \E i \in args.first..(args.nth - 1) : mem[i].tag >= args.nth
    /\ IsSortedRange(mem, args.first, args.nth)
    /\ ~IsSortedRange(mem0, args.first, args.nth)

(***************************************************************************)
(* The permutation machine: a range of n distinct elements in ascending    *)
(* order, and next_permutation called on it until it returns false.        *)
(***************************************************************************)
RECURSIVE Factorial(_)
Factorial(n) == IF n <= 0 THEN 1 ELSE n * Factorial(n - 1)

InitPerm ==
    /\ \E n \in 0..MaxPerm :
          /\ mem = [i \in 0..(n - 1) |-> Elem(i, i)]
          /\ args = [first |-> 0, last |-> n]
    /\ mem0 = mem
    /\ op = "init"
    /\ ret = 0
    /\ count = 0
    /\ trues = 0
    /\ ties = {}
    /\ memcpy_backward = FALSE
    /\ accessed = {}
    /\ fault = FALSE

DoNextPermutation ==
    /\ op = "init" \/ (op = "next_permutation" /\ ret = 1)
    /\ trues < Factorial(args.last - args.first)
    /\ LET r == next_permutation(mem, args.first, args.last)
       IN  /\ mem' = r.m
           /\ ret' = r.ret
           /\ trues' = trues + r.ret
    /\ mem0' = mem
    /\ op' = "next_permutation"
    /\ UNCHANGED <<args, count, ties, memcpy_backward, accessed, fault>>

NextPerm == DoNextPermutation

SpecPerm == InitPerm /\ [][NextPerm]_vars

\* The number of arrangements of the elements of [first, last) that come
\* before m in lexicographic order: an arrangement that agrees with m before
\* slot i and has a smaller element at i can order the rest in any way.
LexRank(m, first, last) ==
    LET Smaller(i) == Cardinality({j \in (i + 1)..(last - 1) : compare(m[j], m[i]) < 0})
        RECURSIVE Sum(_)
        Sum(i) == IF i >= last THEN 0
                  ELSE Smaller(i) * Factorial(last - 1 - i) + Sum(i + 1)
    IN  Sum(first)

\* C6: from n distinct elements in ascending order, every true-returning
\* next_permutation replaces the range by its immediate lexicographic
\* successor, there are exactly n! - 1 of them, and the call after them
\* returns false and leaves the range in ascending order.
NextPermutationEnumerates ==
    LET n == args.last - args.first
    IN  /\ trues <= Factorial(n) - 1
        /\ (op = "next_permutation" /\ ret = 1) =>
              /\ SameMultiset(mem, args.first, args.last, mem0, args.first, args.last)
              /\ LexRank(mem, args.first, args.last)
                    = LexRank(mem0, args.first, args.last) + 1
              /\ LexRank(mem, args.first, args.last) = trues
        /\ (op = "next_permutation" /\ ret = 0) =>
              /\ trues = Factorial(n) - 1
              /\ mem = [i \in 0..(n - 1) |-> Elem(i, i)]

\* The false-returning call on the last of the 4! arrangements.
NextPermutationWitness ==
    /\ op = "next_permutation"
    /\ ret = 0
    /\ args.last - args.first = 4
    /\ trues = 23
    /\ \A i \in 0..2 : compare(mem0[i], mem0[i + 1]) > 0
    /\ IsSortedRange(mem, 0, 4)

(***************************************************************************)
(* The merge machine: two sorted ranges R1 = [0, n1) and R2 = [n1, n1+n2)  *)
(* next to each other, followed by n1 + n2 slots of output (or scratch)    *)
(* storage; one call of merge, merge_with_buffer, set_union or             *)
(* set_difference on them.  set_difference writes to the output storage    *)
(* or in place (out == first_1).  The tag of an element is its slot in the *)
(* input, so tags below n1 are R1's and the others R2's.                   *)
(***************************************************************************)
SortedArrays ==
    {a \in UNION {[0..(n - 1) -> Keys] : n \in 0..MaxSet} :
        \A i \in 0..(ArrayLen(a) - 2) : a[i] <= a[i + 1]}

MergeMemory(a, b) ==
    LET n1 == ArrayLen(a)
        n2 == ArrayLen(b)
    IN  [i \in 0..(2 * (n1 + n2) - 1) |->
            IF i < n1 THEN Elem(a[i], i)
            ELSE IF i < n1 + n2 THEN Elem(b[i - n1], i)
            ELSE Poison]

InitMerge ==
    /\ \E a, b \in SortedArrays :
          /\ mem = MergeMemory(a, b)
          /\ args = [first_1 |-> 0, last_1 |-> ArrayLen(a),
                     first_2 |-> ArrayLen(a), last_2 |-> ArrayLen(a) + ArrayLen(b),
                     out |-> ArrayLen(a) + ArrayLen(b),
                     buffer |-> ArrayLen(a) + ArrayLen(b)]
    /\ mem0 = mem
    /\ op = "init"
    /\ ret = 0
    /\ count = 0
    /\ trues = 0
    /\ ties = {}
    /\ memcpy_backward \in BOOLEAN
    /\ accessed = {}
    /\ fault = FALSE

DoMerge ==
    /\ op = "init"
    /\ LET r == merge(mem, args.first_1, args.last_1, args.first_2, args.last_2,
                      args.out)
       IN  /\ mem' = r.m
           /\ ret' = r.ret
           /\ ties' = r.ties
    /\ op' = "merge"
    /\ UNCHANGED <<mem0, args, count, trues, memcpy_backward, accessed, fault>>

DoMergeWithBuffer ==
    /\ op = "init"
    /\ mem' = merge_with_buffer(mem, args.first_1, args.last_1, args.last_2,
                                args.buffer)
    /\ op' = "merge_with_buffer"
    /\ UNCHANGED <<mem0, args, ret, count, trues, ties, memcpy_backward, accessed, fault>>

DoSetUnion ==
    /\ op = "init"
    /\ LET r == set_union(mem, args.first_1, args.last_1, args.first_2, args.last_2,
                          args.out)
       IN  /\ mem' = r.m
           /\ ret' = r.ret
           /\ ties' = r.ties
    /\ op' = "set_union"
    /\ UNCHANGED <<mem0, args, count, trues, memcpy_backward, accessed, fault>>

DoSetDifference ==
    /\ op = "init"
    /\ \E out \in {args.first_1, args.out} :
          LET r == set_difference(mem, args.first_1, args.last_1, args.first_2,
                                  args.last_2, out)
          IN  /\ mem' = r.m
              /\ ret' = r.ret
              /\ args' = [args EXCEPT !.out = out]
    /\ op' = "set_difference"
    /\ UNCHANGED <<mem0, count, trues, ties, memcpy_backward, accessed, fault>>

NextMerge == DoMerge \/ DoMergeWithBuffer \/ DoSetUnion \/ DoSetDifference

SpecMerge == InitMerge /\ [][NextMerge]_vars

\* C7: merge of two non-decreasing ranges of n1 and n2 elements (either may
\* be empty) writes a non-decreasing output that holds the multiset of the
\* two inputs together, and returns out + n1 + n2.
MergeMerges ==
    op = "merge" =>
        /\ ret = args.out + (args.last_1 - args.first_1) + (args.last_2 - args.first_2)
        /\ IsSortedRange(mem, args.out, ret)
        /\ SameMultiset(mem, args.out, ret, mem0, args.first_1, args.last_2)

\* A merge of two non-empty ranges that took elements from both in turn.
MergeWitness ==
    /\ op = "merge"
    /\ args.last_1 - args.first_1 >= 2
    /\ args.last_2 - args.first_2 >= 2
    /\ \E p \in args.out..(ret - 3) :
          /\ mem[p].tag >= args.first_2
          /\ mem[p + 1].tag < args.last_1
          /\ mem[p + 2].tag >= args.first_2
    /\ IsSortedRange(mem, args.out, ret)

\* C8: in merge, whenever the two heads compare equal the element of the
\* second input is the one written, and the element of the first input is
\* written only later.
MergeTiesTakeSecond ==
    op = "merge" =>
        \A t \in ties :
            /\ mem[t.out] = mem0[t.head_2]
            /\ \E p \in (t.out + 1)..(ret - 1) : mem[p] = mem0[t.head_1]

\* A merge in which the heads compared equal.
MergeTieWitness ==
    /\ op = "merge"
    /\ ties # {}
    /\ \E t \in ties : mem[t.out].tag >= args.first_2

\* C9 as stated: in set_union, whenever the two heads compare equal the one
\* element written is the second range's.
SetUnionTiesTakeSecond ==
    op = "set_union" =>
        \A t \in ties :
            /\ mem[t.out] = mem0[t.head_2]
            /\ \A p \in args.out..(ret - 1) : mem[p] # mem0[t.head_1]

\* C9 as amended: in set_union, whenever the two heads compare equal the one
\* element written is the first range's, and the second range's is dropped.
SetUnionTiesTakeFirst ==
    op = "set_union" =>
        \A t \in ties :
            /\ mem[t.out] = mem0[t.head_1]
            /\ \A p \in args.out..(ret - 1) : mem[p] # mem0[t.head_2]

\* A set_union in which the heads compared equal.
SetUnionTieWitness ==
    /\ op = "set_union"
    /\ ties # {}
    /\ \E t \in ties : mem[t.out].tag < args.last_1

\* The slots of R1 = [first_1, last_1) that no equal element of
\* R2 = [first_2, last_2) matches: each element of R2 matches the earliest
\* equal element of R1 not matched yet.
Unmatched(m0, first_1, last_1, first_2, last_2) ==
    {i \in first_1..(last_1 - 1) :
        Cardinality({h \in first_1..(i - 1) : compare(m0[h], m0[i]) = 0})
            >= Cardinality({j \in first_2..(last_2 - 1) : compare(m0[j], m0[i]) = 0})}

\* C10: set_difference writes to out exactly the unmatched elements of R1,
\* in order, and returns the end of that output; also in place
\* (out == first_1) and with R2 empty, when the result is all of R1.
SetDifferenceKeepsUnmatched ==
    op = "set_difference" =>
        LET kept == Unmatched(mem0, args.first_1, args.last_1, args.first_2,
                              args.last_2)
        IN  /\ ret = args.out + Cardinality(kept)
            /\ \A i \in kept :
                  mem[args.out + Cardinality({h \in kept : h < i})] = mem0[i]

(***************************************************************************)
(* The access machine: a range [0, n) inside a larger storage, and one     *)
(* call on it whose reads and writes are recorded.  Past the range come    *)
(* n/2 slots of scratch buffer and Slack slots that belong to something    *)
(* else and hold arbitrary elements; the storage ends there, and           *)
(* dereferencing a pointer beyond it is a fault.                           *)
(***************************************************************************)
TouchArrays == UNION {[0..(n - 1) -> Keys] : n \in 0..MaxTouch}

\* The long ranges: those just above the two cutoffs, and those whose halves
\* are themselves merged.
TouchLongArrays ==
    {a \in LongArrays : ArrayLen(a) <= 2 * SIZE_WHEN_INSERTION_IS_FASTER_MERGE + Extra}

Tails == [0..(Slack - 1) -> Keys]

AccessMemory(a, tail) ==
    LET n == ArrayLen(a)
        b == n \div 2
    IN  [i \in 0..(n + b + Slack - 1) |->
            IF i < n THEN Elem(a[i], i)
            ELSE IF i < n + b THEN Poison
            ELSE Elem(tail[i - (n + b)], i)]

InitAccess ==
    /\ \E a \in TouchArrays \cup TouchLongArrays :
       \E tail \in Tails :
          /\ ArrayLen(a) > MaxTouch => \A i \in DOMAIN tail : tail[i] = 0
          /\ mem = AccessMemory(a, tail)
          /\ args = [first |-> 0, last |-> ArrayLen(a), buffer |-> ArrayLen(a)]
    /\ mem0 = mem
    /\ op = "init"
    /\ ret = 0
    /\ count = 0
    /\ trues = 0
    /\ ties = {}
    /\ memcpy_backward = FALSE
    /\ accessed = {}
    /\ fault = FALSE

CallIsHeapUntil ==
    /\ op = "init"
    /\ LET r == is_heap_until_run(mem, args.first, args.last)
       IN  /\ ret' = r.ret
           /\ accessed' = r.accessed
           /\ fault' = r.fault
    /\ op' = "is_heap_until"
    /\ UNCHANGED <<mem, mem0, args, count, trues, ties, memcpy_backward>>

CallIsHeap ==
    /\ op = "init"
    /\ LET r == is_heap_until_run(mem, args.first, args.last)
       IN  /\ ret' = IF r.ret = args.last THEN 1 ELSE 0
           /\ accessed' = r.accessed
           /\ fault' = r.fault
    /\ op' = "is_heap"
    /\ UNCHANGED <<mem, mem0, args, count, trues, ties, memcpy_backward>>

\* The insertion sorts are called on the short ranges only; the long ranges
\* are there for the paths of sort and stable_sort_with_buffer above their
\* cutoffs.
CallSort ==
    /\ op = "init"
    /\ mem' = sort(mem, args.first, args.last)
    /\ accessed' = sort_accessed(mem, args.first, args.last)
    /\ op' = "sort"
    /\ UNCHANGED <<mem0, args, ret, count, trues, ties, memcpy_backward, fault>>

CallInsertionSort ==
    /\ op = "init"
    /\ args.last - args.first <= MaxTouch
    /\ mem' = insertion_sort(mem, args.first, args.last)
    /\ accessed' = insertion_sort_accessed(mem, args.first, args.last)
    /\ op' = "insertion_sort"
    /\ UNCHANGED <<mem0, args, ret, count, trues, ties, memcpy_backward, fault>>

CallInsertionSortStable ==
    /\ op = "init"
    /\ args.last - args.first <= MaxTouch
    /\ mem' = insertion_sort_stable(mem, args.first, args.last)
    /\ accessed' = insertion_sort_stable_accessed(mem, args.first, args.last)
    /\ op' = "insertion_sort_stable"
    /\ UNCHANGED <<mem0, args, ret, count, trues, ties, memcpy_backward, fault>>

CallStableSortWithBuffer ==
    /\ op = "init"
    /\ mem' = stable_sort_with_buffer(mem, args.first, args.last, args.buffer)
    /\ accessed' = stable_sort_with_buffer_accessed(mem, args.first, args.last,
                                                  args.buffer)
    /\ op' = "stable_sort_with_buffer"
    /\ UNCHANGED <<mem0, args, ret, count, trues, ties, memcpy_backward, fault>>

CallMakeHeap ==
    /\ op = "init"
    /\ mem' = make_heap(mem, args.first, args.last)
    /\ accessed' = make_heap_accessed(mem, args.first, args.last)
    /\ op' = "make_heap"
    /\ UNCHANGED <<mem0, args, ret, count, trues, ties, memcpy_backward, fault>>

\* sort_heap is called on a range that is a heap.
CallSortHeap ==
    /\ op = "init"
    /\ HeapOrdered(mem, args.first, args.last - args.first)
    /\ mem' = sort_heap(mem, args.first, args.last)
    /\ accessed' = sort_heap_accessed(mem, args.first, args.last)
    /\ op' = "sort_heap"
    /\ UNCHANGED <<mem0, args, ret, count, trues, ties, memcpy_backward, fault>>

NextAccess ==
    \/ CallIsHeapUntil
    \/ CallIsHeap
    \/ CallSort
    \/ CallInsertionSort
    \/ CallInsertionSortStable
    \/ CallStableSortWithBuffer
    \/ CallMakeHeap
    \/ CallSortHeap

SpecAccess == InitAccess /\ [][NextAccess]_vars

\* C11: on an empty range is_heap_until and is_heap read no slot at or
\* beyond last and do not fault, and is_heap_until returns a position in
\* [first, last].
IsHeapAcceptsEmptyRange ==
    (op \in {"is_heap_until", "is_heap"} /\ args.first = args.last) =>
        /\ ~fault
        /\ \A i \in accessed : i < args.last
        /\ (op = "is_heap_until" => args.first <= ret /\ ret <= args.last)

\* On a range of one element or more is_heap_until stays inside the range.
IsHeapUntilStaysInside ==
    (op \in {"is_heap_until", "is_heap"} /\ args.first < args.last) =>
        /\ ~fault
        /\ \A i \in accessed : args.first <= i /\ i < args.last
        /\ (op = "is_heap_until" => args.first < ret /\ ret <= args.last)

SortingEntryPoints ==
    {"sort", "insertion_sort", "insertion_sort_stable", "stable_sort_with_buffer",
     "make_heap", "sort_heap"}

\* C12: sort, insertion_sort, insertion_sort_stable, stable_sort_with_buffer,
\* make_heap and sort_heap, called on an empty range, read and write no slot
\* and leave the memory as it was.
EmptyRangeUntouched ==
    (op \in SortingEntryPoints /\ args.first = args.last) =>
        /\ accessed = {}
        /\ mem = mem0

\* On a range of one element or more the sorting entry points touch slots of
\* the range (and of the scratch buffer) only, every slot they change is one
\* they touched, and the range ends sorted.
SortingStaysInside ==
    (op \in SortingEntryPoints /\ args.first < args.last) =>
        /\ \A i \in accessed :
              /\ args.first <= i
              /\ i < args.last
                 \/ (op = "stable_sort_with_buffer"
                     /\ i < args.buffer + ((args.last - args.first) \div 2))
        /\ \A i \in DOMAIN mem : mem[i] # mem0[i] => i \in accessed
        /\ (op # "make_heap" => IsSortedRange(mem, args.first, args.last))

(***************************************************************************)
(* The search machine: one array of 0..MaxLen elements followed by a slot  *)
(* of other storage, and one call on it of a binary search (on a sorted    *)
(* array, with any value, also one below or above every key).              *)
(***************************************************************************)
SearchMemory(a) ==
    [i \in 0..ArrayLen(a) |-> IF i < ArrayLen(a) THEN Elem(a[i], i) ELSE Poison]

\* The values searched for: every key, one below and one above all keys.
SearchValues == {Elem(k, -1) : k \in (-1)..(MaxKey + 1)}

InitSearch ==
    /\ \E a \in ShortArrays :
          /\ mem = SearchMemory(a)
          /\ args = [first |-> 0, last |-> ArrayLen(a)]
    /\ mem0 = mem
    /\ op = "init"
    /\ ret = 0
    /\ count = 0
    /\ trues = 0
    /\ ties = {}
    /\ memcpy_backward = FALSE
    /\ accessed = {}
    /\ fault = FALSE

DoEqualRange ==
    /\ op = "init"
    /\ IsSortedRange(mem, args.first, args.last)
    /\ \E value \in SearchValues :
          /\ ret' = equal_range(mem, args.first, args.last, value)
          /\ args' = [first |-> args.first, last |-> args.last, value |-> value]
    /\ op' = "equal_range"
    /\ UNCHANGED <<mem, mem0, count, trues, ties, memcpy_backward, accessed, fault>>

DoBinarySearch ==
    /\ op = "init"
    /\ IsSortedRange(mem, args.first, args.last)
    /\ \E value \in SearchValues :
          /\ ret' = IF binary_search(mem, args.first, args.last, value) THEN 1 ELSE 0
          /\ args' = [first |-> args.first, last |-> args.last, value |-> value]
    /\ op' = "binary_search"
    /\ UNCHANGED <<mem, mem0, count, trues, ties, memcpy_backward, accessed, fault>>

\* partition_point_n on any array with any predicate of the key, whether or
\* not the array is partitioned by it.
DoPartitionPoint ==
    /\ op = "init"
    /\ \E ctx \in SUBSET Keys :
          LET r == partition_point_n_run(mem, args.first, args.last - args.first,
                                         "pred_key_in", ctx)
          IN  /\ ret' = r.ret
              /\ accessed' = r.accessed
              /\ args' = [first |-> args.first, last |-> args.last, ctx |-> ctx]
    /\ op' = "partition_point_n"
    /\ UNCHANGED <<mem, mem0, count, trues, ties, memcpy_backward, fault>>

\* partition on any array with any predicate of the key.
DoPartition ==
    /\ op = "init"
    /\ \E ctx \in SUBSET Keys :
          LET r == partition(mem, args.first, args.last, "pred_key_in", ctx)
          IN  /\ mem' = r.m
              /\ ret' = r.ret
              /\ args' = [first |-> args.first, last |-> args.last, ctx |-> ctx]
    /\ op' = "partition"
    /\ UNCHANGED <<mem0, count, trues, ties, memcpy_backward, accessed, fault>>

DoUnique ==
    /\ op = "init"
    /\ IsSortedRange(mem, args.first, args.last)
    /\ LET r == unique(mem, args.first, args.last)
       IN  /\ mem' = r.m
           /\ ret' = r.ret
    /\ op' = "unique"
    /\ UNCHANGED <<mem0, args, count, trues, ties, memcpy_backward, accessed, fault>>

DoUniqueCount ==
    /\ op = "init"
    /\ IsSortedRange(mem, args.first, args.last)
    /\ ret' = unique_count(mem, args.first, args.last)
    /\ op' = "unique_count"
    /\ UNCHANGED <<mem, mem0, args, count, trues, ties, memcpy_backward, accessed, fault>>

\* minmax_element on any non-empty array; on an empty range the call returns
\* at once and stores nothing.
DoMinmaxElement ==
    /\ op = "init"
    /\ args.first # args.last
    /\ ret' = minmax_element(mem, args.first, args.last)
    /\ op' = "minmax_element"
    /\ UNCHANGED <<mem, mem0, args, count, trues, ties, memcpy_backward, accessed, fault>>

NextSearch ==
    \/ DoEqualRange
    \/ DoMinmaxElement
    \/ DoBinarySearch
    \/ DoPartitionPoint
    \/ DoPartition
    \/ DoUnique
    \/ DoUniqueCount

SpecSearch == InitSearch /\ [][NextSearch]_vars

\* C14: on a sorted range equal_range returns lower = lower_bound and
\* upper = upper_bound with first <= lower <= upper <= last; the elements
\* before lower compare < v, those in [lower, upper) compare equal to v and
\* those from upper on compare > v; binary_search returns true exactly when
\* lower # upper.
EqualRangeBrackets ==
    /\ op = "equal_range" =>
          /\ ret.lower = lower_bound(mem, args.first, args.last, args.value)
          /\ ret.upper = upper_bound(mem, args.first, args.last, args.value)
          /\ args.first <= ret.lower /\ ret.lower <= ret.upper /\ ret.upper <= args.last
          /\ \A i \in args.first..(ret.lower - 1) : compare(mem[i], args.value) < 0
          /\ \A i \in ret.lower..(ret.upper - 1) : compare(mem[i], args.value) = 0
          /\ \A i \in ret.upper..(args.last - 1) : compare(mem[i], args.value) > 0
    /\ op = "binary_search" =>
          LET r == equal_range(mem, args.first, args.last, args.value)
          IN  (ret = 1) <=> (r.lower # r.upper)

\* An equal_range that found a run of two or more equal elements strictly
\* inside the range.
EqualRangeWitness ==
    /\ op = "equal_range"
    /\ args.first < ret.lower
    /\ ret.upper - ret.lower >= 2
    /\ ret.upper < args.last
    /\ compare(mem[ret.lower], args.value) = 0

\* The predicate holds on [first, b) and on nothing in [b, last).
SplitsAt(m, first, last, ctx, b) ==
    /\ \A i \in first..(b - 1) : pred_key_in(m[i], ctx)
    /\ \A i \in b..(last - 1) : ~pred_key_in(m[i], ctx)

\* C15: for every range and every predicate, monotonic or not,
\* partition_point_n evaluates the predicate at slots of [first, first + n)
\* only and returns a position in [first, first + n]; when the predicate
\* holds on a prefix and on nothing after it, that position is the boundary.
PartitionPointStaysInside ==
    op = "partition_point_n" =>
        /\ \A i \in accessed : args.first <= i /\ i < args.last
        /\ args.first <= ret /\ ret <= args.last
        /\ \A b \in args.first..args.last :
              SplitsAt(mem, args.first, args.last, args.ctx, b) => ret = b

\* A partition_point_n on a range the predicate does not split: it holds
\* somewhere after a slot it does not hold at.
PartitionPointWitness ==
    /\ op = "partition_point_n"
    /\ args.last - args.first >= 3
    /\ \A b \in args.first..args.last :
          ~SplitsAt(mem, args.first, args.last, args.ctx, b)
    /\ accessed # {}
    /\ args.first < ret /\ ret < args.last

\* C16: partition(first, last, predicate) returns a position p with every
\* element of [first, p) satisfying the predicate and none of [p, last)
\* satisfying it; the range is a permutation of what it was; afterwards
\* is_partitioned is true of the range and partition_point returns p.
PartitionSplits ==
    op = "partition" =>
        /\ args.first <= ret /\ ret <= args.last
        /\ SplitsAt(mem, args.first, args.last, args.ctx, ret)
        /\ SameMultiset(mem, args.first, args.last, mem0, args.first, args.last)
        /\ \A i \in DOMAIN mem : (i < args.first \/ i >= args.last) => mem[i] = mem0[i]
        /\ is_partitioned(mem, args.first, args.last, "pred_key_in", args.ctx)
        /\ partition_point(mem, args.first, args.last, "pred_key_in", args.ctx) = ret

\* A partition that had to move elements: the range was not partitioned
\* before it, and both parts of the result are non-empty.
PartitionWitness ==
    /\ op = "partition"
    /\ ~is_partitioned(mem0, args.first, args.last, "pred_key_in", args.ctx)
    /\ args.first < ret /\ ret < args.last
    /\ mem # mem0

\* The positions of [first, last) that start a run of equal elements.
RunStarts(m, first, last) ==
    {i \in first..(last - 1) : i = first \/ compare(m[i - 1], m[i]) # 0}

\* The j-th (from 0) run start of [first, last).
RunStart(m, first, last, j) ==
    CHOOSE p \in RunStarts(m, first, last) :
        Cardinality({q \in RunStarts(m, first, last) : q < p}) = j

\* C17: on a sorted range unique keeps the first element of each run of
\* equal elements, in order, at the front of the range and returns the end
\* of that prefix; unique_count of the range is the length of the prefix,
\* the number of runs, and is 0 on an empty range.
UniqueKeepsRunStarts ==
    LET runs == Cardinality(RunStarts(mem0, args.first, args.last))
    IN  /\ op = "unique" =>
              /\ ret = args.first + runs
              /\ \A j \in 0..(runs - 1) :
                    mem[args.first + j] = mem0[RunStart(mem0, args.first, args.last, j)]
              /\ unique_count(mem0, args.first, args.last) = ret - args.first
        /\ op = "unique_count" =>
              /\ ret = runs
              /\ args.first = args.last => ret = 0

\* A unique on a range with a run of three and another run after it.
UniqueWitness ==
    /\ op = "unique"
    /\ \E i \in args.first..(args.last - 4) :
          /\ mem0[i].key = mem0[i + 2].key
          /\ mem0[i + 2].key # mem0[i + 3].key
    /\ ret < args.last
    /\ mem # mem0

(***************************************************************************)
(* The random machine: one call of random_shuffle or sample on an array,   *)
(* with every sequence of values rand() can return.  The output storage of *)
(* sample follows the input.                                               *)
(***************************************************************************)
\* Arrays of every length 0..MaxDraw: all keys equal, or keys in a cycle.
DrawArrays ==
    {[i \in 0..(n - 1) |-> (i * mul) % (MaxKey + 1)] : n \in 0..MaxDraw, mul \in Keys}

\* The input array, then MaxDraw + 2 unwritten slots of output storage.
DrawMemory(a) ==
    [i \in 0..(ArrayLen(a) + MaxDraw + 1) |->
        IF i < ArrayLen(a) THEN Elem(a[i], i) ELSE Poison]

\* The values n calls of rand() can return, up to what % leaves of them.
RandValues(n) == [1..n -> 0..(MaxDraw - 1)]

InitRandom ==
    /\ \E a \in DrawArrays :
          /\ mem = DrawMemory(a)
          /\ args = [first |-> 0, last |-> ArrayLen(a), out |-> ArrayLen(a),
                     count |-> 0, drawn |-> <<>>]
    /\ mem0 = mem
    /\ op = "init"
    /\ ret = 0
    /\ count = 0
    /\ trues = 0
    /\ ties = {}
    /\ memcpy_backward = FALSE
    /\ accessed = {}
    /\ fault = FALSE

DoRandomShuffle ==
    /\ op = "init"
    /\ \E rand \in RandValues(args.last - args.first) :
          LET r == random_shuffle(mem, args.first, args.last, rand)
          IN  /\ mem' = r.m
              /\ args' = [args EXCEPT !.drawn = r.drawn]
    /\ op' = "random_shuffle"
    /\ UNCHANGED <<mem0, ret, count, trues, ties, memcpy_backward, accessed, fault>>

\* sample into the output storage; accessed is the set of slots written.
DoSample ==
    /\ op = "init"
    /\ \E cnt \in 0..(MaxDraw + 1), rand \in RandValues(args.last - args.first) :
          LET r == sample(mem, args.first, args.last, args.out, cnt, rand)
          IN  /\ mem' = r.m
              /\ ret' = r.ret
              /\ accessed' = r.written
              /\ args' = [args EXCEPT !.count = cnt, !.drawn = r.drawn]
    /\ op' = "sample"
    /\ UNCHANGED <<mem0, count, trues, ties, memcpy_backward, fault>>

NextRandom == DoRandomShuffle \/ DoSample

SpecRandom == InitRandom /\ [][NextRandom]_vars

\* C18: when count is less than the length of the range, whatever the draws,
\* sample writes the count slots from out on and no other, each of them
\* holds an element of the input and no two hold the element of the same
\* input position, the call returns out + count, and the input is as it was.
SampleSelectsDistinct ==
    (op = "sample" /\ args.count < args.last - args.first) =>
        /\ accessed = args.out..(args.out + args.count - 1)
        /\ \A s \in accessed : \E i \in args.first..(args.last - 1) : mem[s] = mem0[i]
        /\ \A s, t \in accessed : s # t => mem[s].tag # mem[t].tag
        /\ \A s \in DOMAIN mem : s \notin accessed => mem[s] = mem0[s]
        /\ ret = args.out + args.count

\* A sample of two or more elements, fewer than the range holds, in which a
\* draw replaced an element: the first output slot holds a later input
\* element than the second.
SampleWitness ==
    /\ op = "sample"
    /\ args.count >= 2
    /\ args.count < args.last - args.first
    /\ mem[args.out].tag > mem[args.out + 1].tag
    /\ mem[args.out].tag >= args.count

\* C19: when count is at least the length n of the range, the output holds
\* the input in its order, nothing else is written, the call returns
\* out + n, and no draw is made, so the result is the same whatever rand()
\* returns.
SampleCopiesWhole ==
    LET n == args.last - args.first
    IN  (op = "sample" /\ args.count >= n) =>
            /\ \A i \in 0..(n - 1) : mem[args.out + i] = mem0[args.first + i]
            /\ accessed = args.out..(args.out + n - 1)
            /\ \A s \in DOMAIN mem : s \notin accessed => mem[s] = mem0[s]
            /\ ret = args.out + n
            /\ args.drawn = <<>>
            /\ \A rand \in RandValues(n) :
                  LET r == sample(mem0, args.first, args.last, args.out, args.count, rand)
                  IN  r.m = mem /\ r.ret = ret

\* A sample asked for more elements than the range of three or more holds.
SampleWholeWitness ==
    /\ op = "sample"
    /\ args.last - args.first >= 3
    /\ args.count > args.last - args.first
    /\ ret = args.out + (args.last - args.first)

\* The draws of a shuffle of n elements: the k-th is an index in [0, n - k].
DrawSeqs(n) ==
    {d \in [1..(IF n > 1 THEN n - 1 ELSE 0) -> 0..(MaxDraw - 1)] :
        \A k \in DOMAIN d : d[k] <= n - k}

\* The swaps described: for i from n - 1 down to 1, position i with d[n - i].
RECURSIVE SwapsDown(_, _, _, _)
SwapsDown(m, first, i, d) ==
    IF i < 1 THEN m
    ELSE SwapsDown(swap(m, first + i, first + d[Len(d) + 1 - i]), first, i - 1, d)

\* C20: random_shuffle_n on n elements draws, for i from n - 1 down to 1, an
\* index in [0, i] and swaps position i with it; the result is a permutation
\* of the input; and every permutation of the input is the result of exactly
\* one sequence of draws.
ShuffleIsBijection ==
    LET n == args.last - args.first
        results == [d \in DrawSeqs(n) |-> random_shuffle_n(mem0, args.first, n, d).m]
    IN  op = "random_shuffle" =>
            /\ args.drawn \in DrawSeqs(n)
            /\ mem = SwapsDown(mem0, args.first, n - 1, args.drawn)
            /\ SameMultiset(mem, args.first, args.last, mem0, args.first, args.last)
            /\ \A s \in DOMAIN mem : (s < args.first \/ s >= args.last) => mem[s] = mem0[s]
            /\ \A d \in DrawSeqs(n) : results[d] = mem => d = args.drawn
            /\ Cardinality({results[d] : d \in DrawSeqs(n)}) = Factorial(n)

\* A shuffle of three or more elements that moved the first to the end and
\* left one in its place.
ShuffleWitness ==
    /\ op = "random_shuffle"
    /\ args.last - args.first >= 3
    /\ mem[args.last - 1] = mem0[args.first]
    /\ \E i \in args.first..(args.last - 1) : mem[i] = mem0[i]

\* The positions of [first, last) that hold a maximum of the range.
MaxPositions(m, first, last) ==
    {i \in first..(last - 1) : \A j \in first..(last - 1) : compare(m[j], m[i]) <= 0}

\* C21 as stated: on every non-empty range minmax_element stores the
\* position min_element returns and the position max_element returns.
MinmaxMatchesBoth ==
    op = "minmax_element" =>
        /\ ret.min = min_element(mem, args.first, args.last)
        /\ ret.max = max_element(mem, args.first, args.last)

\* C21: on every non-empty range minmax_element stores in *out_min the
\* position min_element returns, and in *out_max the last position that
\* holds a maximum; that is the position max_element returns exactly when
\* the maximum occurs once.
MinmaxMatchesMinAndLastMax ==
    op = "minmax_element" =>
        LET maxima == MaxPositions(mem, args.first, args.last)
        IN  /\ ret.min = min_element(mem, args.first, args.last)
            /\ ret.max \in maxima
            /\ \A i \in maxima : i <= ret.max
            /\ (ret.max = max_element(mem, args.first, args.last))
                   <=> (Cardinality(maxima) = 1)

\* A minmax_element on a range of four whose maximum occurs twice and whose
\* minimum occurs twice.
MinmaxWitness ==
    /\ op = "minmax_element"
    /\ args.last - args.first >= 4
    /\ Cardinality(MaxPositions(mem, args.first, args.last)) = 2
    /\ \E i \in args.first..(args.last - 1) :
          i # ret.min /\ compare(mem[i], mem[ret.min]) = 0
    /\ ret.max # max_element(mem, args.first, args.last)

(***************************************************************************)
(* The heap sort machine: make_heap over an array, then the loop of        *)
(* sort_heap one iteration at a step; count is the length of the range     *)
(* [first, last) that sort_heap has still to pop.                          *)
(***************************************************************************)
InitHeapSort ==
    /\ \E a \in ShortArrays :
          /\ mem = SearchMemory(a)
          /\ args = [first |-> 0, last |-> ArrayLen(a)]
    /\ mem0 = mem
    /\ op = "init"
    /\ ret = 0
    /\ count = 0
    /\ trues = 0
    /\ ties = {}
    /\ memcpy_backward = FALSE
    /\ accessed = {}
    /\ fault = FALSE

HeapSortMakeHeap ==
    /\ op = "init"
    /\ mem' = make_heap(mem, args.first, args.last)
    /\ count' = args.last - args.first
    /\ op' = "make_heap"
    /\ UNCHANGED <<mem0, args, ret, trues, ties, memcpy_backward, accessed, fault>>

\* One iteration of sort_heap: pop_heap(first, last); --last.
HeapSortPop ==
    /\ op \in {"make_heap", "pop_heap"}
    /\ count # 0
    /\ mem' = pop_heap(mem, args.first, args.first + count)
    /\ count' = count - 1
    /\ op' = "pop_heap"
    /\ UNCHANGED <<mem0, args, ret, trues, ties, memcpy_backward, accessed, fault>>

\* last == first: sort_heap returns.
HeapSortReturn ==
    /\ op \in {"make_heap", "pop_heap"}
    /\ count = 0
    /\ op' = "heap_sort"
    /\ UNCHANGED <<mem, mem0, args, ret, count, trues, ties, memcpy_backward, accessed, fault>>

NextHeapSort == HeapSortMakeHeap \/ HeapSortPop \/ HeapSortReturn

SpecHeapSort == InitHeapSort /\ [][NextHeapSort]_vars

\* C22: make_heap leaves the whole range a max-heap; after each pop_heap of
\* sort_heap the slot just past the shrunken active range holds a maximum
\* of what was the active range, the slots from there on are in
\* non-decreasing order, and the shrunken active range is a heap; when
\* sort_heap returns the range is non-decreasing.  The range is a
\* permutation of the input throughout, and the steps compose to
\* sort_heap after make_heap.
HeapSortSorts ==
    LET active == args.first + count
    IN  /\ op \in {"make_heap", "pop_heap", "heap_sort"} =>
              /\ HeapOrdered(mem, args.first, count)
              /\ IsSortedRange(mem, active, args.last)
              /\ \A i \in args.first..(active - 1) :
                    active < args.last => compare(mem[i], mem[active]) <= 0
              /\ SameMultiset(mem, args.first, args.last, mem0, args.first, args.last)
              /\ mem[args.last] = mem0[args.last]
        /\ op = "make_heap" => count = args.last - args.first
        /\ op = "heap_sort" =>
              /\ IsSortedRange(mem, args.first, args.last)
              /\ mem = sort_heap(make_heap(mem0, args.first, args.last),
                                 args.first, args.last)

\* A heap sort of four or more elements, two of them equal, that returned
\* after moving elements.
HeapSortWitness ==
    /\ op = "heap_sort"
    /\ args.last - args.first >= 4
    /\ HasDuplicates(mem0, args.first, args.last)
    /\ ~IsSortedRange(mem0, args.first, args.last)
    /\ mem # mem0

\* The slots of the buffer, and of whatever storage follows it.
FromBuffer(S) == {i \in S : i >= args.buffer}

\* C23: stable_sort_with_buffer on n elements reads and writes no buffer
\* slot at index floor(n/2) or above, whatever the depth of the recursion,
\* and changes nothing there: a buffer of floor(n/2) elements suffices.
BufferOfHalfSuffices ==
    op = "stable_sort_with_buffer" =>
        LET half == (args.last - args.first) \div 2
        IN  /\ \A i \in FromBuffer(accessed) : i < args.buffer + half
            /\ \A i \in FromBuffer(DOMAIN mem) : i >= args.buffer + half => mem[i] = mem0[i]
            /\ \A i \in DOMAIN mem : mem[i] # mem0[i] => i \in accessed

\* A stable_sort_with_buffer on a range of odd length whose larger half was
\* itself merged, and that used every slot of its buffer.
BufferWitness ==
    /\ op = "stable_sort_with_buffer"
    /\ args.last - args.first > 2 * SIZE_WHEN_INSERTION_IS_FASTER_MERGE
    /\ (args.last - args.first) % 2 = 1
    /\ FromBuffer(accessed) =
           args.buffer..(args.buffer + ((args.last - args.first) \div 2) - 1)
    /\ mem # mem0

(***************************************************************************)
(* The partition machine: a non-empty array between two slots of other     *)
(* storage, and one call of _sort_partition on it.  The slot before the    *)
(* array holds a key below every key and the slot after it a key above     *)
(* every key, so a cursor that leaves the range stops there and the slot   *)
(* is recorded.                                                            *)
(***************************************************************************)
GuardedMemory(a) ==
    [i \in 0..(ArrayLen(a) + 1) |->
        IF i = 0 THEN Elem(-1, i)
        ELSE IF i <= ArrayLen(a) THEN Elem(a[i - 1], i)
        ELSE Elem(MaxKey + ArrayLen(a) + 1, i)]

InitPartition ==
    /\ \E a \in SortInputs :
          /\ ArrayLen(a) # 0
          /\ mem = GuardedMemory(a)
          /\ args = [first |-> 1, last |-> ArrayLen(a) + 1]
    /\ mem0 = mem
    /\ op = "init"
    /\ ret = 0
    /\ count = 0
    /\ trues = 0
    /\ ties = {}
    /\ memcpy_backward = FALSE
    /\ accessed = {}
    /\ fault = FALSE

\* accessed is the set of slots the cursors and the pivot read or swapped.
DoSortPartition ==
    /\ op = "init"
    /\ LET p == _sort_partition(mem, args.first, args.last)
       IN  /\ mem' = p.m
           /\ ret' = p.ret
    /\ accessed' = _sort_partition_accessed(mem, args.first, args.last)
    /\ op' = "_sort_partition"
    /\ UNCHANGED <<mem0, args, count, trues, ties, memcpy_backward, fault>>

NextPartition == DoSortPartition

SpecPartition == InitPartition /\ [][NextPartition]_vars

\* C24: on every non-empty range _sort_partition returns a position m such
\* that every element of [first, m) compares <= every element of [m, last),
\* and the range is a permutation of the input.
SortPartitionSplits ==
    op = "_sort_partition" =>
        /\ \A i \in args.first..(ret - 1) :
              \A j \in ret..(args.last - 1) : compare(mem[i], mem[j]) <= 0
        /\ SameMultiset(mem, args.first, args.last, mem0, args.first, args.last)

\* A _sort_partition of four or more elements, two of them equal, that
\* swapped elements and left both parts non-empty.
SortPartitionWitness ==
    /\ op = "_sort_partition"
    /\ args.last - args.first >= 4
    /\ HasDuplicates(mem0, args.first, args.last)
    /\ mem # mem0
    /\ args.first < ret /\ ret < args.last

\* C25: on every range of two or more elements the cursors of
\* _sort_partition stay inside [first, last), nothing outside it changes,
\* and the position m returned has first < m < last.
SortPartitionStaysInside ==
    (op = "_sort_partition" /\ args.last - args.first >= 2) =>
        /\ \A i \in accessed : args.first <= i /\ i < args.last
        /\ mem[args.first - 1] = mem0[args.first - 1]
        /\ mem[args.last] = mem0[args.last]
        /\ args.first < ret /\ ret < args.last

\* A _sort_partition of three or more elements that are all equal: both
\* cursors stop at every element.
SortPartitionEqualWitness ==
    /\ op = "_sort_partition"
    /\ args.last - args.first >= 3
    /\ \A i \in args.first..(args.last - 1) : compare(mem0[i], mem0[args.first]) = 0
    /\ accessed = args.first..(args.last - 1)
    /\ args.first < ret /\ ret < args.last

(***************************************************************************)
(* The sort step machine: one call of sort, a step at a time.              *)
(* args.stack holds the calls of _quick_sort_early_stop that have not      *)
(* returned, innermost first, each with the range [first, last) its loop   *)
(* is at; the caller of a recursive call continues with [first, p) when    *)
(* the call returns.  count is the length of the range last partitioned,   *)
(* and afterwards the cursor of _insertion_sort_unguarded; accessed        *)
(* collects the slots the insertion pass reads or writes.                  *)
(***************************************************************************)
Frame(first, last) == [first |-> first, last |-> last]

InitSortSteps ==
    /\ \E a \in SortInputs :
          /\ mem = GuardedMemory(a)
          /\ args = [first |-> 1, last |-> ArrayLen(a) + 1, stack |-> <<>>]
    /\ mem0 = mem
    /\ op = "init"
    /\ ret = 0
    /\ count = 0
    /\ trues = 0
    /\ ties = {}
    /\ memcpy_backward = FALSE
    /\ accessed = {}
    /\ fault = FALSE

\* sort calls _quick_sort_early_stop(first, last).
SortCall ==
    /\ op = "init"
    /\ args' = [args EXCEPT !.stack = <<Frame(args.first, args.last)>>]
    /\ op' = "_quick_sort_early_stop"
    /\ UNCHANGED <<mem, mem0, ret, count, trues, ties, memcpy_backward, accessed, fault>>

\* The loop of the innermost call is at a range above the cutoff.
AtPartition ==
    /\ op \in {"_quick_sort_early_stop", "_sort_partition"}
    /\ args.stack # <<>>
    /\ Head(args.stack).last - Head(args.stack).first > SIZE_WHEN_INSERTION_IS_FASTER_SORT

\* An iteration of the loop of the innermost call: partition, then the
\* recursive call on [p, last); the loop continues with last = p.
QuickPartition ==
    /\ AtPartition
    /\ LET top == Head(args.stack)
       IN  /\ LET p == _sort_partition(mem, top.first, top.last)
              IN  /\ mem' = p.m
                  /\ args' = [args EXCEPT !.stack =
                                 <<Frame(p.ret, top.last), Frame(top.first, p.ret)>>
                                 \o Tail(args.stack)]
           /\ count' = top.last - top.first
    /\ op' = "_sort_partition"
    /\ UNCHANGED <<mem0, ret, trues, ties, memcpy_backward, accessed, fault>>

\* The loop of the innermost call ends: it returns last.
QuickReturn ==
    /\ op \in {"_quick_sort_early_stop", "_sort_partition"}
    /\ args.stack # <<>>
    /\ LET top == Head(args.stack)
       IN  /\ top.last - top.first <= SIZE_WHEN_INSERTION_IS_FASTER_SORT
           /\ ret' = top.last
    /\ args' = [args EXCEPT !.stack = Tail(args.stack)]
    /\ op' = "_quick_sort_early_stop"
    /\ UNCHANGED <<mem, mem0, count, trues, ties, memcpy_backward, accessed, fault>>

\* The outermost call of _quick_sort_early_stop has returned.
AtSentinel == op = "_quick_sort_early_stop" /\ args.stack = <<>>

\* The outermost call has returned min_partition: the minimum of
\* [first, min_partition) is swapped to the front, and
\* _insertion_sort_unguarded(first, last) is entered.
SortSentinel ==
    /\ AtSentinel
    /\ LET min == min_element(mem, args.first, ret)
       IN  mem' = swap(mem, args.first, min)
    /\ count' = IF args.first = args.last THEN args.last ELSE args.first + 1
    /\ op' = "swap"
    /\ UNCHANGED <<mem0, args, ret, trues, ties, memcpy_backward, accessed, fault>>

\* The outer loop of _insertion_sort_unguarded has an element to insert.
AtInsertion == op \in {"swap", "_insertion_sort_unguarded"} /\ count # args.last

\* An iteration of the outer loop of _insertion_sort_unguarded.
InsertionStep ==
    /\ AtInsertion
    /\ mem' = _insertion_shift(mem, mem[count], count - 1)
    /\ accessed' = accessed \cup {count}
                       \cup _insertion_shift_accessed(mem, mem[count], count - 1)
    /\ count' = count + 1
    /\ op' = "_insertion_sort_unguarded"
    /\ UNCHANGED <<mem0, args, ret, trues, ties, memcpy_backward, fault>>

SortReturn ==
    /\ op \in {"swap", "_insertion_sort_unguarded"}
    /\ count = args.last
    /\ op' = "sort"
    /\ UNCHANGED <<mem, mem0, args, ret, count, trues, ties, memcpy_backward, accessed, fault>>

NextSortSteps ==
    \/ SortCall
    \/ QuickPartition
    \/ QuickReturn
    \/ SortSentinel
    \/ InsertionStep
    \/ SortReturn

SpecSortSteps == InitSortSteps /\ [][NextSortSteps]_vars

\* The code runs on: a step that can be taken is taken (weak fairness of
\* each step).  QuickPartition, SortSentinel and InsertionStep are enabled
\* exactly when AtPartition, AtSentinel and AtInsertion hold, and their weak
\* fairness is written out with these in place of ENABLED.
SpecSortStepsFair ==
    /\ SpecSortSteps
    /\ WF_vars(SortCall)
    /\ WF_vars(QuickReturn)
    /\ WF_vars(SortReturn)
    /\ []<>(~AtPartition) \/ []<><<QuickPartition>>_vars
    /\ []<>(~AtSentinel) \/ []<><<SortSentinel>>_vars
    /\ []<>(~AtInsertion) \/ []<><<InsertionStep>>_vars

\* C26: in sort, once the minimum of the left-most partition is swapped to
\* the front, the front element is a minimum of the whole range; the
\* unguarded insertion pass after it reads and writes no slot before first,
\* and the slot before first is as it was.  The steps compose to sort.
SentinelGuardsInsertion ==
    /\ (op = "swap" /\ args.first # args.last) =>
           \A i \in args.first..(args.last - 1) :
               compare(mem[args.first], mem[i]) <= 0
    /\ op \in {"swap", "_insertion_sort_unguarded", "sort"} =>
           /\ \A i \in accessed : args.first <= i /\ i < args.last
           /\ mem[args.first - 1] = mem0[args.first - 1]
    /\ op = "sort" => mem = sort(mem0, args.first, args.last)

\* An insertion pass of a sort above the cutoff, on a range whose front
\* element was not a minimum, in which the backward scan reached the
\* sentinel.
SentinelWitness ==
    /\ op = "_insertion_sort_unguarded"
    /\ args.last - args.first > SIZE_WHEN_INSERTION_IS_FASTER_SORT
    /\ compare(mem[args.first], mem0[args.first]) < 0
    /\ args.first \in accessed

\* After a partition the two calls that follow it have non-empty ranges
\* shorter than the range partitioned.
SubRangesShrink ==
    op = "_sort_partition" =>
        /\ Len(args.stack) >= 2
        /\ \A k \in 1..2 :
              /\ args.stack[k].first < args.stack[k].last
              /\ args.stack[k].last - args.stack[k].first < count

\* C29: every call of sort returns: each iteration of
\* _quick_sort_early_stop recurses on, and continues with, a range strictly
\* shorter than the one it partitioned, and the insertion pass finishes.
SortTerminates == []SubRangesShrink /\ <>(op = "sort")

\* A sort of a range more than twice the cutoff long, partitioned more than
\* once, that has returned.
SortTerminatesWitness ==
    /\ op = "sort"
    /\ args.last - args.first > 2 * SIZE_WHEN_INSERTION_IS_FASTER_SORT
    /\ ret < args.last
    /\ count = args.last
    /\ mem # mem0

(***************************************************************************)
(* The selection step machine: one call of nth_element with                *)
(* first <= nth < last, an iteration of its loop at a step.  args.cur is   *)
(* the range [first, last) the loop is at, count the length of the range   *)
(* at the iteration before, and fault whether the final assertion failed.  *)
(***************************************************************************)
InitNthSteps ==
    /\ \E a \in SortInputs :
          /\ ArrayLen(a) >= 1
          /\ mem = [i \in 0..(ArrayLen(a) - 1) |-> Elem(a[i], i)]
          /\ \E k \in NthPositions(ArrayLen(a)) :
                args = [first |-> 0, nth |-> k, last |-> ArrayLen(a),
                        cur |-> Frame(0, ArrayLen(a))]
    /\ mem0 = mem
    /\ op = "init"
    /\ ret = 0
    /\ count = 0
    /\ trues = 0
    /\ ties = {}
    /\ memcpy_backward = FALSE
    /\ accessed = {}
    /\ fault = FALSE

NthCall ==
    /\ op = "init"
    /\ count' = (args.last - args.first) + 1
    /\ op' = "loop"
    /\ UNCHANGED <<mem, mem0, args, ret, trues, ties, memcpy_backward, accessed, fault>>

NthIteration ==
    /\ op = "loop"
    /\ args.cur.last - args.cur.first > 1
    /\ LET r == nth_element_iteration(mem, args.cur.first, args.nth, args.cur.last)
       IN  /\ mem' = r.m
           /\ args' = [args EXCEPT !.cur = Frame(r.first, r.last)]
    /\ count' = args.cur.last - args.cur.first
    /\ UNCHANGED <<mem0, op, ret, trues, ties, memcpy_backward, accessed, fault>>

\* The loop ends; assert(first == nth).
NthAssert ==
    /\ op = "loop"
    /\ args.cur.last - args.cur.first <= 1
    /\ ret' = args.cur.first
    /\ fault' = (args.cur.first # args.nth)
    /\ op' = "nth_element"
    /\ UNCHANGED <<mem, mem0, args, count, trues, ties, memcpy_backward, accessed>>

NextNthSteps == NthCall \/ NthIteration \/ NthAssert

SpecNthSteps == InitNthSteps /\ [][NextNthSteps]_vars

\* C27: in nth_element called with first <= nth < last, at the start of
\* every iteration first <= nth < last holds of the loop's range, the range
\* is strictly shorter than at the iteration before, and when the loop ends
\* first == nth, so the assertion holds.  The iterations compose to
\* nth_element.
NthLoopInvariant ==
    /\ op = "loop" =>
           /\ args.cur.first <= args.nth /\ args.nth < args.cur.last
           /\ args.first <= args.cur.first /\ args.cur.last <= args.last
           /\ args.cur.last - args.cur.first < count
    /\ op = "nth_element" =>
           /\ ret = args.nth
           /\ ~fault
           /\ mem = nth_element(mem0, args.first, args.nth, args.last).m

\* The loop of an nth_element at its third iteration or later, the range
\* narrowed from both sides around nth.
NthLoopWitness ==
    /\ op = "loop"
    /\ args.first < args.cur.first
    /\ args.cur.last < args.last
    /\ args.cur.last - args.cur.first > 1
    /\ args.cur.first < args.nth

(***************************************************************************)
(* The merge step machine: one call of merge_with_buffer on two sorted     *)
(* sub-ranges [first_1, last_1) and [last_1, last_2) next to each other,   *)
(* an iteration of the loop of merge at a step.  args.cur holds the        *)
(* cursors of merge.                                                       *)
(***************************************************************************)
InitMergeSteps ==
    /\ \E a, b \in SortedArrays :
          /\ mem = MergeMemory(a, b)
          /\ args = [first_1 |-> 0, last_1 |-> ArrayLen(a),
                     first_2 |-> ArrayLen(a), last_2 |-> ArrayLen(a) + ArrayLen(b),
                     buffer |-> ArrayLen(a) + ArrayLen(b),
                     cur |-> Cursors(0, 0, 0, 0, 0)]
    /\ mem0 = mem
    /\ op = "init"
    /\ ret = 0
    /\ count = 0
    /\ trues = 0
    /\ ties = {}
    /\ memcpy_backward \in BOOLEAN
    /\ accessed = {}
    /\ fault = FALSE

\* merge_with_buffer copies [first, middle) to the buffer and calls merge.
MergeStepsCall ==
    /\ op = "init"
    /\ LET r == merge_with_buffer_call(mem, args.first_1, args.last_1, args.last_2,
                                       args.buffer)
       IN  /\ mem' = r.m
           /\ args' = [args EXCEPT !.cur = r.cur]
    /\ op' = "merge"
    /\ UNCHANGED <<mem0, ret, count, trues, ties, memcpy_backward, accessed, fault>>

MergeStepsIteration ==
    /\ op = "merge"
    /\ args.cur.first_2 # args.cur.last_2
    /\ args.cur.first_1 # args.cur.last_1
    /\ LET r == merge_iteration(mem, args.cur)
       IN  /\ mem' = r.m
           /\ args' = [args EXCEPT !.cur = r.cur]
    /\ count' = count + 1
    /\ UNCHANGED <<mem0, op, ret, trues, ties, memcpy_backward, accessed, fault>>

\* One input is used up, at entry or after an iteration: merge copies the
\* rest of the other and returns.
MergeStepsCopyRest ==
    /\ op = "merge"
    /\ args.cur.first_2 = args.cur.last_2 \/ args.cur.first_1 = args.cur.last_1
    /\ LET c == IF args.cur.first_2 = args.cur.last_2
                THEN copy(mem, args.cur.first_1, args.cur.last_1, args.cur.out)
                ELSE copy(mem, args.cur.first_2, args.cur.last_2, args.cur.out)
       IN  /\ mem' = c.m
           /\ ret' = c.ret
    /\ op' = "merge_with_buffer"
    /\ UNCHANGED <<mem0, args, count, trues, ties, memcpy_backward, accessed, fault>>

NextMergeSteps == MergeStepsCall \/ MergeStepsIteration \/ MergeStepsCopyRest

SpecMergeSteps == InitMergeSteps /\ [][NextMergeSteps]_vars

\* Number of slots of the written part [first, out) and of the unread parts
\* of the two inputs of merge that hold e.
Live(e) ==
    Occurrences(mem, args.first_1, args.cur.out, e)
    + Occurrences(mem, args.cur.first_1, args.cur.last_1, e)
    + Occurrences(mem, args.cur.first_2, args.cur.last_2, e)

\* C28: during merge_with_buffer the write cursor never passes the read
\* cursor of the second sub-range, and every element of the two original
\* sub-ranges is, once, in the part written or in the unread part of an
\* input: no unread element is overwritten.  On return [first, last) is
\* the sorted merge of the two sub-ranges, as merge_with_buffer computes it.
MergeInPlaceKeepsUnread ==
    /\ op = "merge" =>
           /\ args.cur.out <= args.cur.first_2
           /\ \A i \in args.cur.first_2..(args.cur.last_2 - 1) : mem[i] = mem0[i]
           /\ \A i \in args.first_1..(args.last_2 - 1) : Live(mem0[i]) = 1
           /\ IsSortedRange(mem, args.first_1, args.cur.out)
    /\ op = "merge_with_buffer" =>
           /\ ret = args.last_2
           /\ IsSortedRange(mem, args.first_1, args.last_2)
           /\ SameMultiset(mem, args.first_1, args.last_2, mem0, args.first_1, args.last_2)
           /\ mem = merge_with_buffer(mem0, args.first_1, args.last_1, args.last_2,
                                      args.buffer)

\* The loop of merge with the write cursor inside the second sub-range,
\* over slots already read, while both inputs have unread elements.
MergeInPlaceWitness ==
    /\ op = "merge"
    /\ args.cur.out > args.last_1
    /\ args.cur.out < args.cur.first_2
    /\ args.cur.first_1 # args.cur.last_1
    /\ args.cur.first_2 # args.cur.last_2

(***************************************************************************)
(* The stable insertion machine: one call of insertion_sort_stable, the    *)
(* rotation of the minimum to the front at a step and then an iteration of *)
(* the outer loop of _insertion_sort_unguarded at a step.  count is the    *)
(* cursor of that loop.  The ranges are the short ones and those just      *)
(* above the cutoff below which stable_sort calls insertion_sort_stable.   *)
(***************************************************************************)
InitStableInsertion ==
    /\ \E a \in SortInputs :
          /\ ArrayLen(a) <= SIZE_WHEN_INSERTION_IS_FASTER_MERGE + Extra
          /\ mem = GuardedMemory(a)
          /\ args = [first |-> 1, last |-> ArrayLen(a) + 1]
    /\ mem0 = mem
    /\ op = "init"
    /\ ret = 0
    /\ count = 0
    /\ trues = 0
    /\ ties = {}
    /\ memcpy_backward = FALSE
    /\ accessed = {}
    /\ fault = FALSE

\* A range of fewer than two elements: insertion_sort_stable returns at once.
StableInsertionShort ==
    /\ op = "init"
    /\ args.first = args.last \/ args.first + 1 = args.last
    /\ op' = "insertion_sort_stable"
    /\ UNCHANGED <<mem, mem0, args, ret, count, trues, ties, memcpy_backward, accessed, fault>>

\* min_element, ++min, _rotate_right_by_one(first, min), and the entry of
\* _insertion_sort_unguarded(suffix, last).
StableInsertionRotate ==
    /\ op = "init"
    /\ args.first # args.last
    /\ args.first + 1 # args.last
    /\ LET min == min_element(mem, args.first, args.last) + 1
       IN  mem' = _rotate_right_by_one(mem, args.first, min)
    /\ count' = args.first + 2
    /\ op' = "_rotate_right_by_one"
    /\ UNCHANGED <<mem0, args, ret, trues, ties, memcpy_backward, accessed, fault>>

StableInsertionStep ==
    /\ op \in {"_rotate_right_by_one", "_insertion_sort_unguarded"}
    /\ count # args.last
    /\ mem' = _insertion_shift(mem, mem[count], count - 1)
    /\ accessed' = accessed \cup {count}
                       \cup _insertion_shift_accessed(mem, mem[count], count - 1)
    /\ count' = count + 1
    /\ op' = "_insertion_sort_unguarded"
    /\ UNCHANGED <<mem0, args, ret, trues, ties, memcpy_backward, fault>>

StableInsertionReturn ==
    /\ op \in {"_rotate_right_by_one", "_insertion_sort_unguarded"}
    /\ count = args.last
    /\ op' = "insertion_sort_stable"
    /\ UNCHANGED <<mem, mem0, args, ret, count, trues, ties, memcpy_backward, accessed, fault>>

NextStableInsertion ==
    \/ StableInsertionShort
    \/ StableInsertionRotate
    \/ StableInsertionStep
    \/ StableInsertionReturn

SpecStableInsertion == InitStableInsertion /\ [][NextStableInsertion]_vars

\* The first position of [first, last) that holds a minimum of the range.
FirstMinimum(m, first, last) ==
    CHOOSE i \in first..(last - 1) :
        /\ \A j \in first..(last - 1) : compare(m[i], m[j]) <= 0
        /\ \A j \in first..(i - 1) : compare(m[j], m[i]) > 0

\* C30: insertion_sort_stable rotates the first-occurring minimum to the
\* front and leaves the other elements in their order; every iteration of
\* the unguarded pass leaves elements that compare equal in their input
\* order and touches no slot before first; on return the range is
\* non-decreasing, a permutation of the input and stable.
StableInsertionIsStable ==
    /\ op = "_rotate_right_by_one" =>
           LET min == FirstMinimum(mem0, args.first, args.last)
           IN  /\ mem[args.first] = mem0[min]
               /\ \A i \in args.first..(args.last - 1) :
                     i # min => mem[IF i < min THEN i + 1 ELSE i] = mem0[i]
    /\ op \in {"_rotate_right_by_one", "_insertion_sort_unguarded",
               "insertion_sort_stable"} =>
           /\ EqualsKeepTagOrder(mem, args.first, args.last)
           /\ SameMultiset(mem, args.first, args.last, mem0, args.first, args.last)
           /\ \A i \in accessed : args.first <= i /\ i < args.last
           /\ mem[args.first - 1] = mem0[args.first - 1]
           /\ mem[args.last] = mem0[args.last]
    /\ op = "_insertion_sort_unguarded" => IsSortedRange(mem, args.first, count)
    /\ op = "insertion_sort_stable" =>
           /\ IsSortedRange(mem, args.first, args.last)
           /\ mem = insertion_sort_stable(mem0, args.first, args.last)

\* An insertion_sort_stable that has returned, on a range whose minimum
\* occurs twice and not at the front, with two more equal elements that
\* started out of place.
StableInsertionWitness ==
    /\ op = "insertion_sort_stable"
    /\ args.first # args.last
    /\ FirstMinimum(mem0, args.first, args.last) # args.first
    /\ compare(mem[args.first], mem[args.first + 1]) = 0
    /\ \E i, j \in (args.first + 2)..(args.last - 1) :
          /\ i < j
          /\ compare(mem[i], mem[j]) = 0
          /\ mem[j] # mem0[j]
    /\ args.first \in accessed

====
